---- MODULE Spec2Model ----
(***************************************************************************)
(* Model of the reusable Modules layer of the scraper collection: the      *)
(* browser cleanup registry (Scrapper/Modules/BrowserCleanup.py), the      *)
(* browser factory (BrowserSetup.py), the cookie-consent handler           *)
(* (CookieHandler.py), the configuration store (ConfigManager.py) and the  *)
(* control flow of a scraper entry point (ConditionScrapper.main,          *)
(* BestiaryImageScrapper.main).                                            *)
(***************************************************************************)
EXTENDS Integers, Sequences, FiniteSets, TLC

(***************************************************************************)
(* Bounds of the model.                                                    *)
(***************************************************************************)
NumSessions == 2
MaxItems == 2

(***************************************************************************)
(* Sessions (browser driver objects).  None is Python's None.              *)
(***************************************************************************)
None == 0
Sessions == 1..NumSessions
MaybeSession == Sessions \cup {None}

\* What one shutdown method of a driver does when it is called: it returns
\* ("ok"), raises an Exception ("raise"), or the driver has no such attribute
\* ("absent", hasattr is false).  quit is called without a hasattr test, so a
\* driver without quit raises AttributeError there: "raise".
Outcome == {"ok", "raise", "absent"}
QuitOutcome == {"ok", "raise"}
Behaviour == [quit : QuitOutcome, close : Outcome, stop : Outcome]
\* The behaviours drawn for a driver by the operations that run the cascade
\* as one part of their work (ensure_browser_cleanup, close_all_browsers and
\* the exit hooks): one for each way the cascade can end.
BulkBehaviour ==
  { [quit |-> "ok", close |-> "ok", stop |-> "ok"],
    [quit |-> "raise", close |-> "ok", stop |-> "ok"],
    [quit |-> "raise", close |-> "absent", stop |-> "ok"],
    [quit |-> "raise", close |-> "raise", stop |-> "raise"] }
\* The host's os.name and whether os.system raises, for a force-kill.
KillInputs == {"nt", "posix", "java"} \X BOOLEAN

VARIABLES
  managed_browsers,   \* BrowserCleanup.managed_browsers of the one instance
  active_browsers,    \* module global _active_browsers
  last                \* what the most recent registry operation did

regVars == <<managed_browsers, active_browsers, last>>

VARIABLES
  scraper,            \* which entry point runs: "condition" or "bestiary"
  pc,                 \* position of the entry point / of the process exit
  driver,             \* main's local variable driver
  total,              \* number of list items found
  idx,                \* loop index of the per-item loop
  ending,             \* how control left the try block of main
  ensureCalls,        \* calls of ensure_browser_cleanup(driver) by main
  handed,             \* sessions that were handed to close/ensure cleanup
  usedAfter           \* sessions on which a driver method ran after that

runVars == <<scraper, pc, driver, total, idx, ending, ensureCalls,
             handed, usedAfter>>

VARIABLES
  avail,              \* UNDETECTED_/SELENIUM_/WEBDRIVER_MANAGER_AVAILABLE
  setup_driver,       \* BrowserSetup.driver, the cached session
  created,            \* number of sessions created so far
  fac                 \* what the most recent BrowserSetup call did

facVars == <<avail, setup_driver, created, fac>>

VARIABLES
  con                 \* what the most recent CookieHandler call did

conVars == <<con>>

VARIABLES
  heap,               \* the dict objects of ConfigManager.py, by identity
  config,             \* ConfigManager.config: identity of the root dict
  initialized,        \* ConfigManager._initialized of the one instance
  environ,            \* os.environ, in iteration order
  cfg,                \* what the most recent ConfigManager call did
  cfgOps              \* number of calls that may write to the configuration

cfgVars == <<heap, config, initialized, environ, cfg, cfgOps>>

VARIABLES
  san                 \* what the most recent sanitize_filename call did

sanVars == <<san>>

VARIABLES
  it_scraper,         \* which per-item loop runs
  it_pc,              \* position: "list", "loop", "done", "aborted", "idle"
  it_run,             \* "first" run or "rerun" over the same site
  page,               \* the records shown by the items of the list
  it_total,           \* total: number of items counted before the loop
  it_idx,             \* index of the next iteration
  dom,                \* number of clicks and navigations made on the page
  listAt,             \* value of dom when the list in use was queried
  fs,                 \* the files on disk: path and the run that wrote it
  written,            \* every save made: name, source, path and run
  attempts,           \* indices whose iteration has run, in order, this run
  rg_acc,             \* success_count and failed_items of scrape_rules_glossary
  it                  \* what the most recent iteration did

itemVars == <<it_scraper, it_pc, it_run, page, it_total, it_idx, dom, listAt,
              fs, written, attempts, rg_acc, it>>

VARIABLES
  fl_variant,         \* which disable_filters is running
  fl_env,             \* what a click does to a pill on this page
  fl_pc,              \* position in disable_filters
  fl_first,           \* the pills as they were when the function was called
  fl_pills,           \* the pills of the page now
  fl_todo,            \* pills of the current pass not yet handled
  fl_attempt,         \* passes started so far
  fl_clicks,          \* clicks made on each pill so far
  fl_result           \* what the function returned

filVars == <<fl_variant, fl_env, fl_pc, fl_first, fl_pills, fl_todo,
             fl_attempt, fl_clicks, fl_result>>

VARIABLES
  dl_fs,              \* the content of each target path
  dl                  \* what the most recent download call did

dlVars == <<dl_fs, dl>>

VARIABLES
  adv_pc,             \* position in scrape_adventures
  adv_total,          \* len(adventures)
  adv_idx,            \* index of the adventure being processed
  adv_dir,            \* completed .md files of the output directory, oldest first
  adv_success,        \* successful_downloads
  adv_consent,        \* calls of handle_consent made so far
  adv_loopConsent     \* those of them made inside the loop

advVars == <<adv_pc, adv_total, adv_idx, adv_dir, adv_success, adv_consent,
             adv_loopConsent>>

VARIABLES
  bt_pc,              \* position of the coroutine main / process_monster_batch
  bt_total,           \* total_monsters
  bt_start,           \* start_idx of the current batch
  bt_i,               \* index of the current monster
  bt_browser,         \* browser-driving calls in progress
  bt_inflight,        \* HTTP GETs issued and not yet answered
  bt_batchGets,       \* GETs issued in the current batch
  bt_peak             \* most GETs in flight at once in the current batch

btVars == <<bt_pc, bt_total, bt_start, bt_i, bt_browser, bt_inflight,
            bt_batchGets, bt_peak>>

VARIABLES
  sp_pc,              \* position in process_specie
  sp_data,            \* full_data, the SpecieData in memory
  sp_file,            \* content of the JSON file of the species
  sp_ret              \* what process_specie returned

spVars == <<sp_pc, sp_data, sp_file, sp_ret>>

VARIABLES
  bk_pc,              \* position in the book scraper
  bk_elems,           \* the book links found on the page, as (name, date)
  bk_i,               \* loop index of process_book_one_by_one
  bk_books_data,      \* the BooksData in memory
  bk_disk,            \* content of Data/Books/MetadataBooks.json
  bk_written,         \* whether this run has written the metadata file
  bk_skipped          \* whether this run has skipped an already-processed book

bkVars == <<bk_pc, bk_elems, bk_i, bk_books_data, bk_disk, bk_written,
            bk_skipped>>

nonRegVars == <<runVars, facVars, conVars, cfgVars, sanVars, itemVars, filVars, dlVars, advVars, btVars, spVars, bkVars>>
nonRunVars == <<facVars, conVars, cfgVars, sanVars, itemVars, filVars, dlVars, advVars, btVars, spVars, bkVars>>
nonFacVars == <<regVars, runVars, conVars, cfgVars, sanVars, itemVars, filVars, dlVars, advVars, btVars, spVars, bkVars>>
nonConVars == <<regVars, runVars, facVars, cfgVars, sanVars, itemVars, filVars, dlVars, advVars, btVars, spVars, bkVars>>
nonCfgVars == <<regVars, runVars, facVars, conVars, sanVars, itemVars, filVars, dlVars, advVars, btVars, spVars, bkVars>>
nonSanVars == <<regVars, runVars, facVars, conVars, cfgVars, itemVars, filVars, dlVars, advVars, btVars, spVars, bkVars>>
nonItemVars == <<regVars, runVars, facVars, conVars, cfgVars, sanVars, filVars, dlVars, advVars, btVars, spVars, bkVars>>
nonFilVars == <<regVars, runVars, facVars, conVars, cfgVars, sanVars, itemVars, dlVars, advVars, btVars, spVars, bkVars>>
nonDlVars == <<regVars, runVars, facVars, conVars, cfgVars, sanVars, itemVars, filVars, advVars, btVars, spVars, bkVars>>
nonAdvVars == <<regVars, runVars, facVars, conVars, cfgVars, sanVars, itemVars, filVars, dlVars, btVars, spVars, bkVars>>
nonBtVars == <<regVars, runVars, facVars, conVars, cfgVars, sanVars, itemVars, filVars, dlVars, advVars, spVars, bkVars>>
nonSpVars == <<regVars, runVars, facVars, conVars, cfgVars, sanVars, itemVars, filVars, dlVars, advVars, btVars, bkVars>>
nonBkVars == <<regVars, runVars, facVars, conVars, cfgVars, sanVars, itemVars, filVars, dlVars, advVars, btVars, spVars>>

vars == <<regVars, runVars, facVars, conVars, cfgVars, sanVars, itemVars, filVars, dlVars, advVars, btVars, spVars, bkVars>>

\* The record kept of the most recent registry operation: its name and
\* argument, the registered sessions a bulk operation found (pre), the
\* behaviour bh of the driver's
\* shutdown methods during it, the methods it invoked in order (tried),
\* whether one of them succeeded (closed), the value returned (result), the
\* sessions it ran the cascade on (attempted), those on which all methods
\* failed (failed) and the number of force-kills it made (kills).
NoBehaviour == [quit |-> "absent", close |-> "absent", stop |-> "absent"]
NoOp ==
  [op |-> "none", arg |-> None, pre |-> {}, bh |-> NoBehaviour, tried |-> <<>>, closed |-> FALSE, result |-> FALSE,
   attempted |-> {}, failed |-> {}, kills |-> 0]

Op(name, b) == [NoOp EXCEPT !.op = name, !.arg = b]

(***************************************************************************)
(* The three-tier shutdown of BrowserCleanup.close_browser (method) and    *)
(* of the module-level close_browser: the methods invoked on the driver,   *)
(* in order, and the success flag.                                         *)
(***************************************************************************)
ShutdownCascadeStopAlways(bh) ==
  LET s1 == bh.quit = "ok"
      t1 == <<"quit">>
      try2 == ~s1 /\ bh.close # "absent"
      t2 == IF try2 THEN Append(t1, "close") ELSE t1
      s2 == s1 \/ (try2 /\ bh.close = "ok")
      try3 == bh.stop # "absent"
      t3 == IF try3 THEN Append(t2, "stop") ELSE t2
      s3 == s2 \/ (try3 /\ bh.stop = "ok")
  IN  [tried |-> t3, success |-> s3]

ShutdownCascade(bh) ==
  LET s1 == bh.quit = "ok"
      t1 == <<"quit">>
      try2 == ~s1 /\ bh.close # "absent"
      t2 == IF try2 THEN Append(t1, "close") ELSE t1
      s2 == s1 \/ (try2 /\ bh.close = "ok")
      try3 == ~s2 /\ bh.stop # "absent"
      t3 == IF try3 THEN Append(t2, "stop") ELSE t2
      s3 == s2 \/ (try3 /\ bh.stop = "ok")
  IN  [tried |-> t3, success |-> s3]

ShutdownCascadeGlobal(bh) ==
  LET s1 == bh.quit = "ok"
      t1 == <<"quit">>
      try2 == ~s1 /\ bh.close # "absent"
      t2 == IF try2 THEN Append(t1, "close") ELSE t1
      s2 == s1 \/ (try2 /\ bh.close = "ok")
      try3 == ~s2 /\ bh.stop # "absent"
      t3 == IF try3 THEN Append(t2, "stop") ELSE t2
      s3 == s2 \/ (try3 /\ bh.stop = "ok")
  IN  [tried |-> t3, success |-> s3]

\* The two registries as one value, for the operators below.
Registry == [managed |-> managed_browsers, active |-> active_browsers]

SetRegistry(reg) ==
  /\ managed_browsers' = reg.managed
  /\ active_browsers' = reg.active

(***************************************************************************)
(* BrowserCleanup.register_browser(browser)                                *)
(***************************************************************************)
RegisterBrowser(b) ==
  /\ IF b # None
       THEN /\ managed_browsers' = managed_browsers \cup {b}
            /\ active_browsers' = active_browsers \cup {b}
       ELSE UNCHANGED <<managed_browsers, active_browsers>>
  /\ last' = Op("register_browser", b)

(***************************************************************************)
(* module-level register_browser(browser)                                  *)
(***************************************************************************)
RegisterBrowserGlobal(b) ==
  /\ IF b # None
       THEN active_browsers' = active_browsers \cup {b}
       ELSE UNCHANGED active_browsers
  /\ last' = Op("register_browser_global", b)
  /\ UNCHANGED managed_browsers

(***************************************************************************)
(* BrowserCleanup.close_browser(browser) -> bool, as a function of the     *)
(* registry reg and of the behaviour bh of the driver's methods: the       *)
(* registry afterwards, the methods invoked and the value returned.        *)
(***************************************************************************)
CloseBrowserResult(reg, b, bh) ==
  IF b = None
    THEN [reg |-> reg, tried |-> <<>>, success |-> FALSE]
    ELSE LET r == ShutdownCascade(bh) IN
         [reg |-> [managed |-> reg.managed \ {b}, active |-> reg.active \ {b}],
          tried |-> r.tried, success |-> r.success]

CloseBrowser(b, bh) ==
  LET r == CloseBrowserResult(Registry, b, bh) IN
  /\ SetRegistry(r.reg)
  /\ last' = [Op("close_browser", b) EXCEPT
                !.bh = IF b = None THEN NoBehaviour ELSE bh,
                !.tried = r.tried, !.closed = r.success, !.result = r.success,
                !.attempted = {b} \ {None},
                !.failed = IF r.success THEN {} ELSE {b} \ {None}]

(***************************************************************************)
(* module-level close_browser(browser) -> bool                             *)
(***************************************************************************)
CloseBrowserGlobalResult(reg, b, bh) ==
  IF b = None
    THEN [reg |-> reg, tried |-> <<>>, success |-> FALSE]
    ELSE LET r == ShutdownCascadeGlobal(bh) IN
         [reg |-> [managed |-> reg.managed, active |-> reg.active \ {b}],
          tried |-> r.tried, success |-> r.success]

CloseBrowserGlobal(b, bh) ==
  LET r == CloseBrowserGlobalResult(Registry, b, bh) IN
  /\ SetRegistry(r.reg)
  /\ last' = [Op("close_browser_global", b) EXCEPT
                !.bh = IF b = None THEN NoBehaviour ELSE bh,
                !.tried = r.tried, !.closed = r.success, !.result = r.success,
                !.attempted = {b} \ {None},
                !.failed = IF r.success THEN {} ELSE {b} \ {None}]

(***************************************************************************)
(* force_kill_processes / force_kill_browser_processes: the value          *)
(* returned on the host named osname when os.system raises or not.         *)
(***************************************************************************)
ForceKill(osname, sysRaises) ==
  (osname \in {"nt", "posix"}) /\ ~sysRaises

(***************************************************************************)
(* ensure_browser_cleanup(browser, logger, force_kill) -> bool             *)
(***************************************************************************)
EnsureBrowserCleanup(b, bh, force_kill, osname, sysRaises) ==
  LET r == CloseBrowserGlobalResult(Registry, b, bh)
      kill == ~r.success /\ force_kill
  IN  /\ SetRegistry(r.reg)
      /\ last' = [Op("ensure_browser_cleanup", b) EXCEPT
                    !.bh = IF b = None THEN NoBehaviour ELSE bh,
                    !.tried = r.tried, !.closed = r.success,
                    !.result = IF kill THEN ForceKill(osname, sysRaises)
                                       ELSE r.success,
                    !.attempted = {b} \ {None},
                    !.failed = IF r.success THEN {} ELSE {b} \ {None},
                    !.kills = IF kill THEN 1 ELSE 0]

\* The order in which a loop "for browser in list(a_set)" visits a snapshot:
\* here by increasing identity (any order gives the same registry).
First(todo) == CHOOSE x \in todo : \A y \in todo : x <= y

\* for browser in list(self.managed_browsers): self.close_browser(browser)
\* st holds the registry and the sessions attempted and failed so far.
RECURSIVE CloseLoop(_, _, _)
CloseLoop(todo, bhs, st) ==
  IF todo = {} THEN st
  ELSE LET b == First(todo)
           r == CloseBrowserResult(st.reg, b, bhs[b])
       IN  CloseLoop(todo \ {b}, bhs,
                     [reg |-> r.reg,
                      attempted |-> st.attempted \cup {b},
                      failed |-> IF r.success THEN st.failed
                                              ELSE st.failed \cup {b}])

\* for browser in list(_active_browsers): close_browser(browser)
RECURSIVE CloseLoopGlobal(_, _, _)
CloseLoopGlobal(todo, bhs, st) ==
  IF todo = {} THEN st
  ELSE LET b == First(todo)
           r == CloseBrowserGlobalResult(st.reg, b, bhs[b])
       IN  CloseLoopGlobal(todo \ {b}, bhs,
                           [reg |-> r.reg,
                            attempted |-> st.attempted \cup {b},
                            failed |-> IF r.success THEN st.failed
                                                    ELSE st.failed \cup {b}])

LoopStart == [reg |-> Registry, attempted |-> {}, failed |-> {}]

(***************************************************************************)
(* BrowserCleanup.close_all_browsers() -> bool.  bhs gives the behaviour   *)
(* of each managed driver's shutdown methods during this call.             *)
(***************************************************************************)
\* The loop run over the live set instead of a snapshot of it: the first
\* close_browser changes the set and the for statement raises RuntimeError.
CloseAllBrowsersLive(bhs) ==
  IF managed_browsers = {}
    THEN /\ last' = [Op("close_all_browsers", None) EXCEPT !.result = TRUE]
         /\ UNCHANGED <<managed_browsers, active_browsers>>
    ELSE LET st == CloseLoop({First(managed_browsers)}, bhs, LoopStart) IN
         /\ SetRegistry(st.reg)
         /\ last' = [Op("close_all_browsers", None) EXCEPT
                       !.pre = managed_browsers,
                       !.attempted = st.attempted, !.failed = st.failed]

CloseAllBrowsers(bhs) ==
  IF managed_browsers = {}
    THEN /\ last' = [Op("close_all_browsers", None) EXCEPT !.result = TRUE]
         /\ UNCHANGED <<managed_browsers, active_browsers>>
    ELSE LET st == CloseLoop(managed_browsers, bhs, LoopStart)
             success == st.failed = {}
         IN  /\ SetRegistry(st.reg)
             /\ last' = [Op("close_all_browsers", None) EXCEPT
                           !.pre = managed_browsers, !.closed = success, !.result = success,
                           !.attempted = st.attempted, !.failed = st.failed,
                           !.kills = IF ~success THEN 1 ELSE 0]

(***************************************************************************)
(* _cleanup_all_browsers(): the module's atexit hook.                      *)
(***************************************************************************)
CleanupAllBrowsersLive(bhs) ==
  LET st == IF active_browsers = {} THEN LoopStart
            ELSE CloseLoopGlobal({First(active_browsers)}, bhs, LoopStart)
  IN  /\ SetRegistry(st.reg)
      /\ last' = [Op("_cleanup_all_browsers", None) EXCEPT
                    !.pre = active_browsers,
                    !.attempted = st.attempted, !.failed = st.failed]

CleanupAllBrowsers(bhs) ==
  LET st == CloseLoopGlobal(active_browsers, bhs, LoopStart) IN
  /\ SetRegistry([st.reg EXCEPT !.active = {}])
  /\ last' = [Op("_cleanup_all_browsers", None) EXCEPT
                !.pre = active_browsers,
                !.attempted = st.attempted, !.failed = st.failed]

(***************************************************************************)
(* BrowserCleanup._cleanup_managed_browsers(): the instance's atexit hook. *)
(***************************************************************************)
CleanupManagedBrowsers(bhs) ==
  LET st == CloseLoop(managed_browsers, bhs, LoopStart) IN
  /\ SetRegistry(st.reg)
  /\ last' = [Op("_cleanup_managed_browsers", None) EXCEPT
                !.pre = managed_browsers,
                !.attempted = st.attempted, !.failed = st.failed]

(***************************************************************************)
(* The registry driven through its interface by an arbitrary caller.       *)
(***************************************************************************)
RunIdle ==
  /\ scraper = "condition"
  /\ pc = "idle"
  /\ driver = None
  /\ total = 0
  /\ idx = 0
  /\ ending = "none"
  /\ ensureCalls = 0
  /\ handed = {}
  /\ usedAfter = {}

RegEmpty ==
  /\ managed_browsers = {}
  /\ active_browsers = {}
  /\ last = NoOp

FacIdle ==
  /\ avail = [undetected |-> TRUE, selenium |-> TRUE, manager |-> TRUE]
  /\ setup_driver = None
  /\ created = 0
  /\ fac = [op |-> "none"]

ConIdle == con = [op |-> "none"]

CfgIdle ==
  /\ heap = <<>>
  /\ config = None
  /\ initialized = FALSE
  /\ environ = <<>>
  /\ cfg = [op |-> "none"]
  /\ cfgOps = 0

SanIdle == san = [op |-> "none"]

\* processed_count, success_count and failed_items before the loop of
\* scrape_rules_glossary (lines 667-671).
NoAccount == [success |-> 0, failed |-> <<>>]

ItemIdle ==
  /\ it_scraper = "condition"
  /\ it_pc = "idle"
  /\ it_run = "first"
  /\ page = <<>>
  /\ it_total = 0
  /\ it_idx = 0
  /\ dom = 0
  /\ listAt = 0
  /\ fs = {}
  /\ written = {}
  /\ attempts = <<>>
  /\ rg_acc = NoAccount
  /\ it = [op |-> "none"]

FilIdle ==
  /\ fl_variant = "none"
  /\ fl_env = "none"
  /\ fl_pc = "idle"
  /\ fl_first = <<>>
  /\ fl_pills = <<>>
  /\ fl_todo = <<>>
  /\ fl_attempt = 0
  /\ fl_clicks = <<>>
  /\ fl_result = "none"

DlIdle ==
  /\ dl_fs = <<>>
  /\ dl = [op |-> "none"]

AdvIdle ==
  /\ adv_pc = "idle"
  /\ adv_total = 0
  /\ adv_idx = 0
  /\ adv_dir = <<>>
  /\ adv_success = 0
  /\ adv_consent = 0
  /\ adv_loopConsent = 0

BtIdle ==
  /\ bt_pc = "idle"
  /\ bt_total = 0
  /\ bt_start = 0
  /\ bt_i = 0
  /\ bt_browser = 0
  /\ bt_inflight = {}
  /\ bt_batchGets = 0
  /\ bt_peak = 0

SpIdle ==
  /\ sp_pc = "idle"
  /\ sp_data = "none"
  /\ sp_file = "none"
  /\ sp_ret = "none"

\* The book scraper is not running.
BkIdle ==
  /\ bk_pc = "idle"
  /\ bk_elems = <<>>
  /\ bk_i = 0
  /\ bk_books_data = [books |-> <<>>, total_books |-> 0, successful_downloads |-> 0]
  /\ bk_disk = [present |-> FALSE, books |-> <<>>, total_books |-> 0,
                successful_downloads |-> 0]
  /\ bk_written = FALSE
  /\ bk_skipped = FALSE

RegInit ==
  /\ BkIdle
  /\ SpIdle
  /\ BtIdle
  /\ AdvIdle
  /\ DlIdle
  /\ FilIdle
  /\ ItemIdle
  /\ SanIdle
  /\ RegEmpty
  /\ RunIdle
  /\ FacIdle
  /\ ConIdle
  /\ CfgIdle

ApiRegister ==
  /\ \E b \in MaybeSession : RegisterBrowser(b)
  /\ UNCHANGED nonRegVars
ApiRegisterGlobal ==
  /\ \E b \in MaybeSession : RegisterBrowserGlobal(b)
  /\ UNCHANGED nonRegVars
ApiClose ==
  /\ \E b \in MaybeSession, bh \in Behaviour : CloseBrowser(b, bh)
  /\ UNCHANGED nonRegVars
ApiCloseGlobal ==
  /\ \E b \in MaybeSession, bh \in Behaviour : CloseBrowserGlobal(b, bh)
  /\ UNCHANGED nonRegVars
\* The inputs of a force-kill that matter to a call: those of the host when
\* the call reaches the force-kill, one fixed pair when it does not.
KillChoices(b, bh, fk) ==
  IF fk /\ (b = None \/ bh.quit # "ok") THEN KillInputs ELSE {<<"posix", FALSE>>}

ApiEnsure ==
  /\ \E b \in MaybeSession, bh \in BulkBehaviour, fk \in BOOLEAN :
       \E k \in KillChoices(b, bh, fk) :
         EnsureBrowserCleanup(b, bh, fk, k[1], k[2])
  /\ UNCHANGED nonRegVars
ApiCloseAll ==
  /\ \E bhs \in [managed_browsers -> BulkBehaviour] : CloseAllBrowsers(bhs)
  /\ UNCHANGED nonRegVars
ApiExitHook ==
  /\ \E bhs \in [active_browsers -> BulkBehaviour] : CleanupAllBrowsers(bhs)
  /\ UNCHANGED nonRegVars
ApiInstanceExitHook ==
  /\ \E bhs \in [managed_browsers -> BulkBehaviour] : CleanupManagedBrowsers(bhs)
  /\ UNCHANGED nonRegVars

RegNext ==
  \/ ApiRegister
  \/ ApiRegisterGlobal
  \/ ApiClose
  \/ ApiCloseGlobal
  \/ ApiEnsure
  \/ ApiCloseAll
  \/ ApiExitHook
  \/ ApiInstanceExitHook

SpecRegistry == RegInit /\ [][RegNext]_vars

(***************************************************************************)
(* A scraper entry point and the exit of its process:                      *)
(* ConditionScrapper.main ("condition") and BestiaryImageScrapper.main     *)
(* with its __main__ block ("bestiary").                                   *)
(***************************************************************************)
Scrapers == {"condition", "bestiary"}

\* How one step inside main's try block ends: it completes, raises an
\* Exception, or the process is interrupted (KeyboardInterrupt).
StepOutcome == {"ok", "exc", "kbd"}

\* A driver method (navigation, DOM query, script) is invoked on session d.
UseDriver(d) ==
  /\ usedAfter' = usedAfter \cup ({d} \cap handed)
  /\ UNCHANGED handed

\* The shutdown cascade is run on each session of bs by a cleanup call.
HandToCleanup(bs) ==
  /\ usedAfter' = usedAfter \cup (bs \cap handed)
  /\ handed' = handed \cup bs

\* Where control goes when a step inside "try:" ends with outcome o: to the
\* next step; or into "except Exception" (which logs) and then "finally";
\* a KeyboardInterrupt is no Exception and unwinds through "finally" only.
UnwindNoFinally(o, nextpc) ==
  IF o = "ok" THEN [pc |-> nextpc, ending |-> "none"]
  ELSE IF o = "exc" THEN [pc |-> "finally", ending |-> "error"]
  ELSE [pc |-> "interrupted", ending |-> "interrupted"]

Unwind(o, nextpc) ==
  IF o = "ok" THEN [pc |-> nextpc, ending |-> "none"]
  ELSE IF o = "exc" THEN [pc |-> "finally", ending |-> "error"]
  ELSE [pc |-> "finally", ending |-> "interrupted"]

Goto(u) ==
  /\ pc' = u.pc
  /\ ending' = u.ending

\* main up to "driver = None": returns at once without Selenium.
RunStart ==
  /\ pc = "start"
  /\ \E selenium \in BOOLEAN :
       IF selenium
         THEN pc' = "get_driver" /\ ending' = "none"
         ELSE pc' = "returned" /\ ending' = "no_selenium"
  /\ UNCHANGED <<scraper, driver, total, idx, ensureCalls, handed, usedAfter>>
  /\ UNCHANGED regVars
  /\ UNCHANGED nonRunVars

\* driver = browser_setup.get_driver()
RunGetDriver ==
  /\ pc = "get_driver"
  /\ \E o \in StepOutcome, d \in Sessions :
       /\ driver' = IF o = "ok" THEN d ELSE None
       /\ Goto(Unwind(o, "register"))
  /\ UNCHANGED <<scraper, total, idx, ensureCalls, handed, usedAfter>>
  /\ UNCHANGED regVars
  /\ UNCHANGED nonRunVars

\* browser_cleanup.register_browser(driver)
RunRegister ==
  /\ pc = "register"
  /\ RegisterBrowser(driver)
  /\ Goto(Unwind("ok", "configure"))
  /\ UNCHANGED <<scraper, driver, total, idx, ensureCalls, handed, usedAfter>>
  /\ UNCHANGED nonRunVars

\* driver.set_page_load_timeout(config.get("browser.page_load_timeout", 90))
RunConfigure ==
  /\ pc = "configure"
  /\ \E o \in StepOutcome : Goto(Unwind(o, "navigate"))
  /\ UseDriver(driver)
  /\ UNCHANGED <<scraper, driver, total, idx, ensureCalls>>
  /\ UNCHANGED regVars
  /\ UNCHANGED nonRunVars

\* driver.get(url); time.sleep(5)
RunNavigate ==
  /\ pc = "navigate"
  /\ \E o \in StepOutcome : Goto(Unwind(o, "consent"))
  /\ UseDriver(driver)
  /\ UNCHANGED <<scraper, driver, total, idx, ensureCalls>>
  /\ UNCHANGED regVars
  /\ UNCHANGED nonRunVars

\* cookie_handler.handle_consent(driver): returns a bool, raises no Exception.
RunConsent ==
  /\ pc = "consent"
  /\ \E o \in {"ok", "kbd"} :
       Goto(Unwind(o, IF scraper = "condition" THEN "filters" ELSE "wait"))
  /\ UseDriver(driver)
  /\ UNCHANGED <<scraper, driver, total, idx, ensureCalls>>
  /\ UNCHANGED regVars
  /\ UNCHANGED nonRunVars

\* disable_filters(driver) / disable_filters(driver, wait): both catch
\* every Exception themselves.
RunDisableFilters ==
  /\ pc = "filters"
  /\ \E o \in {"ok", "kbd"} :
       Goto(Unwind(o, IF scraper = "condition" THEN "wait" ELSE "list"))
  /\ UseDriver(driver)
  /\ UNCHANGED <<scraper, driver, total, idx, ensureCalls>>
  /\ UNCHANGED regVars
  /\ UNCHANGED nonRunVars

\* WebDriverWait(driver, 20).until(list rows present): on a timeout the
\* condition scraper logs an error and returns, the bestiary scraper logs a
\* warning and continues.
RunWaitForList ==
  /\ pc = "wait"
  /\ \E o \in {"ok", "timeout", "kbd"} :
       IF o = "timeout"
         THEN IF scraper = "condition"
                THEN pc' = "finally" /\ ending' = "early_return"
                ELSE pc' = "filters" /\ ending' = "none"
         ELSE Goto(Unwind(o, IF scraper = "condition" THEN "list" ELSE "filters"))
  /\ UseDriver(driver)
  /\ UNCHANGED <<scraper, driver, total, idx, ensureCalls>>
  /\ UNCHANGED regVars
  /\ UNCHANGED nonRunVars

\* elems = driver.find_elements(...); total = len(elems).  The bestiary
\* scraper returns when no monster was found.
RunList ==
  /\ pc = "list"
  /\ \E o \in StepOutcome, n \in 0..MaxItems :
       IF o = "ok"
         THEN /\ total' = n
              /\ IF scraper = "bestiary" /\ n = 0
                   THEN pc' = "finally" /\ ending' = "early_return"
                   ELSE pc' = "loop" /\ ending' = "none"
         ELSE /\ total' = total
              /\ Goto(Unwind(o, "loop"))
  /\ idx' = 0
  /\ UseDriver(driver)
  /\ UNCHANGED <<scraper, driver, ensureCalls>>
  /\ UNCHANGED regVars
  /\ UNCHANGED nonRunVars

\* One iteration of the per-item loop: an Exception in it is caught inside
\* the loop and the loop goes on.
RunItem ==
  /\ pc = "loop"
  /\ idx < total
  /\ \E o \in StepOutcome :
       IF o = "kbd" THEN Goto(Unwind(o, "loop")) /\ idx' = idx
                    ELSE Goto(Unwind("ok", "loop")) /\ idx' = idx + 1
  /\ UseDriver(driver)
  /\ UNCHANGED <<scraper, driver, total, ensureCalls>>
  /\ UNCHANGED regVars
  /\ UNCHANGED nonRunVars

\* The loop is exhausted: main logs the completion and leaves the try block.
RunLoopDone ==
  /\ pc = "loop"
  /\ idx >= total
  /\ pc' = "finally"
  /\ ending' = "completed"
  /\ UNCHANGED <<scraper, driver, total, idx, ensureCalls, handed, usedAfter>>
  /\ UNCHANGED regVars
  /\ UNCHANGED nonRunVars

\* finally: if driver: ensure_browser_cleanup(driver, logger); then main
\* returns, or the pending KeyboardInterrupt propagates out of main.
RunFinally ==
  /\ pc = "finally"
  /\ IF driver # None
       THEN /\ \E bh \in Behaviour :
                 \E k \in KillChoices(driver, bh, TRUE) :
                   EnsureBrowserCleanup(driver, bh, TRUE, k[1], k[2])
            /\ HandToCleanup({driver})
            /\ ensureCalls' = ensureCalls + 1
       ELSE UNCHANGED <<regVars, handed, usedAfter, ensureCalls>>
  /\ pc' = IF ending = "interrupted" THEN "interrupted" ELSE "returned"
  /\ UNCHANGED <<scraper, driver, total, idx, ending>>
  /\ UNCHANGED nonRunVars

\* Process exit, first atexit callback (registered last, by the
\* BrowserCleanup instance main created): _cleanup_managed_browsers.
RunExitInstanceHook ==
  /\ pc \in {"returned", "interrupted"}
  /\ IF ending # "no_selenium"
       THEN /\ \E bhs \in [managed_browsers -> BulkBehaviour] :
                 CleanupManagedBrowsers(bhs)
            /\ HandToCleanup(managed_browsers)
       ELSE UNCHANGED <<regVars, handed, usedAfter>>
  /\ pc' = "atexit"
  /\ UNCHANGED <<scraper, driver, total, idx, ending, ensureCalls>>
  /\ UNCHANGED nonRunVars

\* Process exit, second atexit callback (registered at import of
\* BrowserCleanup): _cleanup_all_browsers.
RunExitHook ==
  /\ pc = "atexit"
  /\ \E bhs \in [active_browsers -> BulkBehaviour] : CleanupAllBrowsers(bhs)
  /\ HandToCleanup(active_browsers)
  /\ pc' = "exited"
  /\ UNCHANGED <<scraper, driver, total, idx, ending, ensureCalls>>
  /\ UNCHANGED nonRunVars

RunInit ==
  /\ BkIdle
  /\ SpIdle
  /\ BtIdle
  /\ AdvIdle
  /\ DlIdle
  /\ FilIdle
  /\ ItemIdle
  /\ SanIdle
  /\ RegEmpty
  /\ FacIdle
  /\ ConIdle
  /\ CfgIdle
  /\ scraper \in Scrapers
  /\ pc = "start"
  /\ driver = None
  /\ total = 0
  /\ idx = 0
  /\ ending = "none"
  /\ ensureCalls = 0
  /\ handed = {}
  /\ usedAfter = {}

RunNext ==
  \/ RunStart
  \/ RunGetDriver
  \/ RunRegister
  \/ RunConfigure
  \/ RunNavigate
  \/ RunConsent
  \/ RunDisableFilters
  \/ RunWaitForList
  \/ RunList
  \/ RunItem
  \/ RunLoopDone
  \/ RunFinally
  \/ RunExitInstanceHook
  \/ RunExitHook

SpecRun == RunInit /\ [][RunNext]_vars


(***************************************************************************)
(* The browser factory: BrowserSetup.                                      *)
(***************************************************************************)
\* What the host does during one create_driver call: the detected Chrome
\* version (None or a number), how the constructor of each backend ends,
\* and what get_chrome_executable() gives.
FactoryInputs ==
  [version : {"none", "major"},
   a : {"ok", "raise"},       \* uc.Chrome(...)
   b : {"ok", "raise"},       \* ChromeDriverManager().install() + webdriver.Chrome
   exe : {"path", "none", "raise"},   \* get_chrome_executable()
   c : {"ok", "raise"}]       \* webdriver.Chrome with the system binary

\* setup_chrome_options: an options object of the first library available,
\* ImportError without any.
SetupChromeOptions(av) ==
  IF av.undetected THEN "uc.ChromeOptions"
  ELSE IF av.selenium THEN "ChromeOptions"
  ELSE "ImportError"

\* create_driver with the fall through to the next backend after a success.
CreateDriverNoReturn(av, in) ==
  IF SetupChromeOptions(av) = "ImportError"
    THEN [attempts |-> <<>>, outcome |-> "ImportError", backend |-> "none"]
  ELSE
    LET tryA == av.undetected
        okA == tryA /\ in.a = "ok"
        tryB == av.selenium /\ av.manager
        okB == tryB /\ in.b = "ok"
        tryC == av.selenium
        okC == tryC /\ in.exe = "path" /\ in.c = "ok"
        att == (IF tryA THEN <<"A">> ELSE <<>>)
                 \o (IF tryB THEN <<"B">> ELSE <<>>)
                 \o (IF tryC THEN <<"C">> ELSE <<>>)
    IN  IF okC THEN [attempts |-> att, outcome |-> "driver", backend |-> "C"]
        ELSE IF okB THEN [attempts |-> att, outcome |-> "driver", backend |-> "B"]
        ELSE IF okA THEN [attempts |-> att, outcome |-> "driver", backend |-> "A"]
        ELSE [attempts |-> att, outcome |-> "RuntimeError", backend |-> "none"]

\* BrowserSetup.create_driver: the backends entered, in order, and how the
\* call ends: with the driver of a backend, or with an exception.
CreateDriver(av, in) ==
  IF SetupChromeOptions(av) = "ImportError"
    THEN [attempts |-> <<>>, outcome |-> "ImportError", backend |-> "none"]
  ELSE
    LET tryA == av.undetected
        okA == tryA /\ in.a = "ok"
        tryB == ~okA /\ av.selenium /\ av.manager
        okB == tryB /\ in.b = "ok"
        tryC == ~okA /\ ~okB /\ av.selenium
        okC == tryC /\ in.exe = "path" /\ in.c = "ok"
        att == (IF tryA THEN <<"A">> ELSE <<>>)
                 \o (IF tryB THEN <<"B">> ELSE <<>>)
                 \o (IF tryC THEN <<"C">> ELSE <<>>)
    IN  IF okA THEN [attempts |-> att, outcome |-> "driver", backend |-> "A"]
        ELSE IF okB THEN [attempts |-> att, outcome |-> "driver", backend |-> "B"]
        ELSE IF okC THEN [attempts |-> att, outcome |-> "driver", backend |-> "C"]
        ELSE [attempts |-> att, outcome |-> "RuntimeError", backend |-> "none"]

\* BrowserSetup.get_driver(): creates the driver on the first call and
\* returns the cached one afterwards.
GetDriver ==
  /\ IF setup_driver = None
       THEN /\ created < NumSessions
            /\ \E in \in FactoryInputs :
                 LET r == CreateDriver(avail, in)
                     d == IF r.outcome = "driver" THEN created + 1 ELSE None
                 IN  /\ setup_driver' = d
                     /\ created' = IF d # None THEN created + 1 ELSE created
                     /\ fac' = [op |-> "create_driver", in |-> in,
                                attempts |-> r.attempts, outcome |-> r.outcome,
                                backend |-> r.backend, session |-> d]
       ELSE /\ fac' = [op |-> "get_driver", session |-> setup_driver]
            /\ UNCHANGED <<setup_driver, created>>
  /\ UNCHANGED avail
  /\ UNCHANGED nonFacVars

\* BrowserSetup.close(): quits the cached driver, if any, and forgets it.
SetupClose ==
  /\ setup_driver' = None
  /\ fac' = [op |-> "close", session |-> setup_driver]
  /\ UNCHANGED <<avail, created>>
  /\ UNCHANGED nonFacVars

FacInit ==
  /\ BkIdle
  /\ SpIdle
  /\ BtIdle
  /\ AdvIdle
  /\ DlIdle
  /\ FilIdle
  /\ ItemIdle
  /\ SanIdle
  /\ RegEmpty
  /\ RunIdle
  /\ ConIdle
  /\ CfgIdle
  /\ avail \in [undetected : BOOLEAN, selenium : BOOLEAN, manager : BOOLEAN]
  /\ setup_driver = None
  /\ created = 0
  /\ fac = [op |-> "none"]

FacNext ==
  \/ GetDriver
  \/ SetupClose

SpecFactory == FacInit /\ [][FacNext]_vars


(***************************************************************************)
(* The cookie-consent handler: CookieHandler.                              *)
(***************************************************************************)
\* The selector lists, cut to one or two selectors of each kind and kept in
\* the order of the source (XPath text matches before generic CSS ones).
consent_element_selectors ==
  << [kind |-> "css", sel |-> "div.cookie-banner"],
     [kind |-> "css", sel |-> "div[class*='cookie']"] >>

accept_button_selectors ==
  << [kind |-> "xpath", sel |-> "//button[contains(text(), 'Accept')]"],
     [kind |-> "css", sel |-> "button.accept-all"] >>

SelectorNames ==
  {consent_element_selectors[i].sel : i \in DOMAIN consent_element_selectors}
    \cup {accept_button_selectors[i].sel : i \in DOMAIN accept_button_selectors}

IsXPath(s) == s.kind = "xpath"
IsCss(s) == s.kind # "xpath"

\* What the page does during one handle_consent call: the selectors that
\* locate an element within the detection timeout; how each script ends
\* ("true"/"false": the value it returns, "raise": execute_script raises);
\* and, for each accept-button selector, whether the button becomes
\* clickable ("timeout": it does not), button.click() works ("click"), only
\* the JavaScript click works ("jsclick"), or both raise ("fail").
ConsentInputs ==
  [present : SUBSET SelectorNames,
   set_cookies : {"true", "raise"},
   find_and_click : {"true", "false", "raise"},
   buttons : [DOMAIN accept_button_selectors ->
                {"timeout", "click", "jsclick", "fail"}],
   hide_elements : {"true", "false", "raise"},
   aggressive_cleanup : {"true", "raise"}]

\* detect_consent_elements: the CSS selectors of both lists first, then the
\* XPath selectors; a selector that locates nothing times out and is skipped.
DetectConsentElements(present) ==
  LET all_selectors ==
        consent_element_selectors \o SelectSeq(accept_button_selectors, IsCss)
      xpaths == SelectSeq(accept_button_selectors, IsXPath)
      Found(s) == s.sel \in present
  IN  SelectSeq(all_selectors, Found) \o SelectSeq(xpaths, Found)

\* apply_javascript_strategy(driver, strategy): bool(result), False when
\* execute_script raises.  The stage record says whether the script
\* completed and the value the strategy returned.
ApplyJavascriptStrategy(strategy, how) ==
  [name |-> strategy, completed |-> (how # "raise"), value |-> (how = "true")]

\* click_accept_buttons: the selectors are tried in order until one click
\* (direct, or by JavaScript when the direct click raises) works.
RECURSIVE ClickAcceptButtonsFrom(_, _, _)
ClickAcceptButtonsFrom(i, buttons, clicks) ==
  IF i > Len(accept_button_selectors)
    THEN [clicks |-> clicks, value |-> FALSE]
  ELSE LET sel == accept_button_selectors[i].sel
           direct(ok) == [sel |-> sel, how |-> "click", ok |-> ok]
           js(ok) == [sel |-> sel, how |-> "js", ok |-> ok]
       IN  CASE buttons[i] = "timeout" ->
                  ClickAcceptButtonsFrom(i + 1, buttons, clicks)
             [] buttons[i] = "click" ->
                  [clicks |-> Append(clicks, direct(TRUE)), value |-> TRUE]
             [] buttons[i] = "jsclick" ->
                  [clicks |-> clicks \o <<direct(FALSE), js(TRUE)>>,
                   value |-> TRUE]
             [] OTHER ->
                  ClickAcceptButtonsFrom(i + 1, buttons,
                                         clicks \o <<direct(FALSE), js(FALSE)>>)

ClickAcceptButtons(buttons) == ClickAcceptButtonsFrom(1, buttons, <<>>)

\* handle_consent without the two early returns after a click.
HandleConsentNoEarlyReturn(in) ==
  LET cookie_elements == DetectConsentElements(in.present)
      s1 == ApplyJavascriptStrategy("set_cookies", in.set_cookies)
      s2 == ApplyJavascriptStrategy("find_and_click", in.find_and_click)
      cb == ClickAcceptButtons(in.buttons)
      s3 == [name |-> "click_accept_buttons", completed |-> TRUE,
             value |-> cb.value]
      s4 == ApplyJavascriptStrategy("hide_elements", in.hide_elements)
      s5 == ApplyJavascriptStrategy("aggressive_cleanup", in.aggressive_cleanup)
  IN  IF cookie_elements = <<>>
        THEN [cookie_elements |-> cookie_elements, stages |-> <<>>,
              clicks |-> <<>>, result |-> TRUE]
        ELSE [cookie_elements |-> cookie_elements,
              stages |-> <<s1, s2, s3, s4, s5>>,
              clicks |-> cb.clicks, result |-> TRUE]

\* handle_consent with the cookie injection done before the detection.
HandleConsentInjectFirst(in) ==
  LET cookie_elements == DetectConsentElements(in.present)
      s1 == ApplyJavascriptStrategy("set_cookies", in.set_cookies)
  IN  [cookie_elements |-> cookie_elements, stages |-> <<s1>>,
       clicks |-> <<>>, result |-> TRUE]

\* CookieHandler.handle_consent(driver): the elements detected, the stages
\* executed in order, the clicks attempted and the value returned.
HandleConsentResult(in) ==
  LET cookie_elements == DetectConsentElements(in.present)
      s1 == ApplyJavascriptStrategy("set_cookies", in.set_cookies)
      s2 == ApplyJavascriptStrategy("find_and_click", in.find_and_click)
      cb == ClickAcceptButtons(in.buttons)
      s3 == [name |-> "click_accept_buttons", completed |-> TRUE,
             value |-> cb.value]
      s4 == ApplyJavascriptStrategy("hide_elements", in.hide_elements)
      s5 == ApplyJavascriptStrategy("aggressive_cleanup", in.aggressive_cleanup)
  IN  IF cookie_elements = <<>>
        THEN [cookie_elements |-> cookie_elements, stages |-> <<>>,
              clicks |-> <<>>, result |-> TRUE]
      ELSE IF s2.value
        THEN [cookie_elements |-> cookie_elements, stages |-> <<s1, s2>>,
              clicks |-> <<>>, result |-> TRUE]
      ELSE IF s3.value
        THEN [cookie_elements |-> cookie_elements, stages |-> <<s1, s2, s3>>,
              clicks |-> cb.clicks, result |-> TRUE]
      ELSE [cookie_elements |-> cookie_elements,
            stages |-> <<s1, s2, s3, s4, s5>>,
            clicks |-> cb.clicks, result |-> TRUE]

\* A scraper calls handle_consent once on the page it has loaded.
HandleConsent ==
  /\ con.op = "page"
  /\ LET r == HandleConsentResult(con.in) IN
       con' = [op |-> "handle_consent", in |-> con.in,
               cookie_elements |-> r.cookie_elements, stages |-> r.stages,
               clicks |-> r.clicks, result |-> r.result]
  /\ UNCHANGED nonConVars

\* CookieHandler.detect_consent_elements(driver) called on its own.
DetectOnly ==
  /\ con.op = "page"
  /\ con' = [op |-> "detect_consent_elements", in |-> con.in,
             cookie_elements |-> DetectConsentElements(con.in.present)]
  /\ UNCHANGED nonConVars

ConInit ==
  /\ BkIdle
  /\ SpIdle
  /\ BtIdle
  /\ AdvIdle
  /\ DlIdle
  /\ FilIdle
  /\ ItemIdle
  /\ SanIdle
  /\ RegEmpty
  /\ RunIdle
  /\ FacIdle
  /\ CfgIdle
  /\ con \in {[op |-> "page", in |-> in] : in \in ConsentInputs}

ConNext ==
  \/ HandleConsent
  \/ DetectOnly

SpecConsent == ConInit /\ [][ConNext]_vars

(***************************************************************************)
(* The configuration store: ConfigManager.                                 *)
(*                                                                         *)
(* Python dicts are objects with an identity: heap is the sequence of the  *)
(* dict objects created so far and a dict value refers to one by its       *)
(* index, so that two keys holding the same dict share its content as they *)
(* do in the program.  The key names are a projection of the program's:    *)
(* the section "scraper" with its key "user_agent" (None by default), the  *)
(* section "system" added at construction and the empty key "".            *)
(***************************************************************************)
MaxPathLen == 5
MaxCfgOps == 1

PathNames == {"scraper", "user_agent"}
Names == PathNames \cup {"system"}
Keys == Names \cup {""}

\* Values: id is the identity of a dict, s the JSON text of anything else.
Absent == [k |-> "absent", id |-> 0, s |-> ""]
NoneVal == [k |-> "none", id |-> 0, s |-> "null"]
BoolVal == [k |-> "bool", id |-> 0, s |-> "true"]
ListVal == [k |-> "list", id |-> 0, s |-> "[1]"]
StrVal(text) == [k |-> "str", id |-> 0, s |-> text]
DictRef(obj) == [k |-> "dict", id |-> obj, s |-> ""]
NewDict == DictRef(0)
EmptyDict == [key \in Keys |-> Absent]

\* DEFAULT_CONFIG and its section "scraper", as created at import.
DEFAULT_CONFIG == 1
DEFAULT_CONFIG_scraper == 2
ImportHeap ==
  << [EmptyDict EXCEPT !["scraper"] = DictRef(DEFAULT_CONFIG_scraper)],
     [EmptyDict EXCEPT !["user_agent"] = NoneVal] >>

\* A string is the sequence of its separators and of its maximal
\* separator-free, non-empty pieces; str.split(sep) gives the pieces between
\* the separators, the empty string where two separators meet or one stands
\* at an end.
WellFormed(p, sep) ==
  \A i \in 1..(Len(p) - 1) : p[i] = sep \/ p[i + 1] = sep

RECURSIVE SplitAcc(_, _, _, _)
SplitAcc(p, sep, cur, acc) ==
  IF p = <<>> THEN Append(acc, cur)
  ELSE IF Head(p) = sep THEN SplitAcc(Tail(p), sep, "", Append(acc, cur))
  ELSE SplitAcc(Tail(p), sep, Head(p), acc)

Split(p, sep) == SplitAcc(p, sep, "", <<>>)

KeyPaths ==
  {p \in UNION {[1..n -> PathNames \cup {"."}] : n \in 0..MaxPathLen} :
     WellFormed(p, ".")}

\* value[key] of the program: the value, or the exception raised.
Subscript(h, value, key) ==
  IF value.k # "dict" THEN [exc |-> "TypeError", value |-> Absent]
  ELSE IF h[value.id][key].k = "absent"
       THEN [exc |-> "KeyError", value |-> Absent]
       ELSE [exc |-> "none", value |-> h[value.id][key]]

\* for key in keys: value = value[key]
RECURSIVE GetWalk(_, _, _)
GetWalk(h, value, keys) ==
  IF keys = <<>> THEN [exc |-> "none", value |-> value]
  ELSE LET r == Subscript(h, value, Head(keys)) IN
         IF r.exc # "none" THEN r ELSE GetWalk(h, r.value, Tail(keys))

\* get with "except KeyError" alone: a TypeError leaves the call.
GetKeyErrorOnly(h, root, key_path, default) ==
  LET r == GetWalk(h, DictRef(root), Split(key_path, ".")) IN
    IF r.exc = "KeyError"
      THEN [value |-> default, raised |-> "none", heap |-> h]
      ELSE [value |-> r.value, raised |-> r.exc, heap |-> h]

\* ConfigManager.get(key_path, default): the value returned, the exception
\* that leaves the call and the dict objects afterwards.
Get(h, root, key_path, default) ==
  LET r == GetWalk(h, DictRef(root), Split(key_path, ".")) IN
    IF r.exc \in {"KeyError", "TypeError"}
      THEN [value |-> default, raised |-> "none", heap |-> h]
      ELSE [value |-> r.value, raised |-> r.exc, heap |-> h]

\* ConfigManager.set, from target on.  A target that is no dict makes
\* "key not in target", "target[key] = {}" or "target = target[key]" raise
\* TypeError, whichever comes first for its type.
RECURSIVE SetWalk(_, _, _, _)
SetWalk(st, target, keys, value) ==
  IF target.k # "dict" THEN [st EXCEPT !.exc = "TypeError"]
  ELSE IF Len(keys) = 1
    THEN [st EXCEPT !.heap[target.id][keys[1]] = value]
  ELSE IF st.heap[target.id][Head(keys)].k = "absent"
    THEN LET new == Len(st.heap) + 1 IN
           SetWalk([st EXCEPT !.heap = [Append(st.heap, EmptyDict) EXCEPT
                                          ![target.id][Head(keys)] = DictRef(new)]],
                   DictRef(new), Tail(keys), value)
  ELSE SetWalk(st, st.heap[target.id][Head(keys)], Tail(keys), value)

\* ConfigManager.set(key_path, value)
Set(h, root, key_path, value) ==
  SetWalk([heap |-> h, exc |-> "none"], DictRef(root), Split(key_path, "."), value)

\* json.loads(text): the kind of value parsed, or a JSONDecodeError.
JsonLoads(text) ==
  CASE text = "null" -> [ok |-> TRUE, k |-> "none"]
    [] text = "true" -> [ok |-> TRUE, k |-> "bool"]
    [] text = "[1]" -> [ok |-> TRUE, k |-> "list"]
    [] text = "{}" -> [ok |-> TRUE, k |-> "dict"]
    [] OTHER -> [ok |-> FALSE, k |-> "none"]

\* str.lower() on the pieces of an environment variable's name.
Lower(piece) ==
  CASE piece = "SCRAPER" -> "scraper"
    [] piece = "USER_AGENT" -> "user_agent"
    [] piece = "SYSTEM" -> "system"
    [] OTHER -> piece

LowerAll(p) == [i \in 1..Len(p) |-> Lower(p[i])]

\* The environments of the process: os.environ as a sequence of variables,
\* a name being its pieces ("SCRAPER_" the prefix, "__" the separator).
EnvVar(name, text) == [name |-> name, value |-> text]
EnvChoices ==
  { <<>>,
    << EnvVar(<<"PATH">>, "chrome") >>,
    << EnvVar(<<"SCRAPER_", "SCRAPER", "__", "USER_AGENT">>, "chrome") >>,
    << EnvVar(<<"SCRAPER_", "SCRAPER">>, "true") >>,
    << EnvVar(<<"SCRAPER_", "USER_AGENT", "__", "SCRAPER">>, "[1]") >>,
    << EnvVar(<<"SCRAPER_", "SCRAPER", "__", "USER_AGENT", "__", "SYSTEM">>, "{}") >>,
    << EnvVar(<<"SCRAPER_", "SCRAPER">>, "true"),
       EnvVar(<<"SCRAPER_", "SCRAPER", "__", "USER_AGENT">>, "null") >> }

\* _load_from_env, one variable, from current on (lines 190-201).  A current
\* that is no dict makes "part not in current", "current[part] = {}",
\* "current = current[part]" or the assignment in the except clause raise
\* TypeError.
RECURSIVE EnvWalk(_, _, _, _)
EnvWalk(st, current, key_parts, text) ==
  IF current.k # "dict" THEN [st EXCEPT !.exc = "TypeError"]
  ELSE IF Len(key_parts) = 1
    THEN LET j == JsonLoads(text)
             new == Len(st.heap) + 1 IN
           IF ~j.ok
             THEN [st EXCEPT !.heap[current.id][key_parts[1]] = StrVal(text)]
           ELSE IF j.k = "dict"
             THEN [st EXCEPT !.heap = [Append(st.heap, EmptyDict) EXCEPT
                                         ![current.id][key_parts[1]] = DictRef(new)]]
           ELSE [st EXCEPT !.heap[current.id][key_parts[1]] =
                             [k |-> j.k, id |-> 0, s |-> text]]
  ELSE IF st.heap[current.id][Head(key_parts)].k = "absent"
    THEN LET new == Len(st.heap) + 1 IN
           EnvWalk([st EXCEPT !.heap = [Append(st.heap, EmptyDict) EXCEPT
                                          ![current.id][Head(key_parts)] = DictRef(new)]],
                   DictRef(new), Tail(key_parts), text)
  ELSE EnvWalk(st, st.heap[current.id][Head(key_parts)], Tail(key_parts), text)

\* ConfigManager._load_from_env(): the loop over os.environ.items().
RECURSIVE LoadFromEnv(_, _, _)
LoadFromEnv(st, root, env) ==
  IF env = <<>> \/ st.exc # "none" THEN st
  ELSE LET key == Head(env).name
           st2 == IF key # <<>> /\ Head(key) = "SCRAPER_"
                    THEN EnvWalk(st, DictRef(root),
                                 Split(LowerAll(Tail(key)), "__"), Head(env).value)
                    ELSE st
       IN  LoadFromEnv(st2, root, Tail(env))

\* A JSON file: whether it can be opened and parsed, and the object in it,
\* two levels deep (sub holds the content of a nested object).
FileLeaf(v) == [k |-> v.k, s |-> v.s, sub |-> EmptyDict]
FileDict(sub) == [k |-> "dict", s |-> "", sub |-> sub]
EmptyFile == [key \in Keys |-> FileLeaf(Absent)]
FileChoices ==
  { [EmptyFile EXCEPT !["scraper"] =
       FileDict([EmptyDict EXCEPT !["user_agent"] = StrVal("file")])],
    [EmptyFile EXCEPT !["scraper"] = FileLeaf(StrVal("file"))],
    [EmptyFile EXCEPT !["user_agent"] =
       FileDict([EmptyDict EXCEPT !["scraper"] = BoolVal])] }
NoFile == [status |-> "none", content |-> EmptyFile]
FileInputs ==
  {[status |-> "ok", content |-> c] : c \in FileChoices}
    \cup {[status |-> "unreadable", content |-> EmptyFile]}

\* json.load(f): the objects of the file, created as new dicts.
RECURSIVE LoadJsonKeys(_, _, _, _)
LoadJsonKeys(h, top, content, todo) ==
  IF todo = {} THEN h
  ELSE LET key == CHOOSE x \in todo : TRUE
           e == content[key]
           h2 == IF e.k = "dict"
                   THEN [Append(h, e.sub) EXCEPT ![top][key] = DictRef(Len(h) + 1)]
                   ELSE [h EXCEPT ![top][key] = [k |-> e.k, id |-> 0, s |-> e.s]]
       IN  LoadJsonKeys(h2, top, content, todo \ {key})

LoadJson(h, content) ==
  [heap |-> LoadJsonKeys(Append(h, EmptyDict), Len(h) + 1, content,
                         {x \in Keys : content[x].k # "absent"}),
   id |-> Len(h) + 1]

\* ConfigManager._deep_merge(target, source)
RECURSIVE DeepMerge(_, _, _)
RECURSIVE DeepMergeItems(_, _, _, _)
DeepMergeItems(h, target, source, todo) ==
  IF todo = {} THEN h
  ELSE LET key == CHOOSE x \in todo : TRUE
           value == h[source][key]
           h2 == IF h[target][key].k = "dict" /\ value.k = "dict"
                   THEN DeepMerge(h, h[target][key].id, value.id)
                   ELSE [h EXCEPT ![target][key] = value]
       IN  DeepMergeItems(h2, target, source, todo \ {key})

DeepMerge(h, target, source) ==
  DeepMergeItems(h, target, source, {x \in Keys : h[source][x].k # "absent"})

\* ConfigManager.load_from_file(file_path) -> bool
LoadFromFile(h, root, file) ==
  IF file.status = "ok"
    THEN LET j == LoadJson(h, file.content) IN
           [heap |-> DeepMerge(j.heap, root, j.id), ok |-> TRUE]
    ELSE [heap |-> h, ok |-> FALSE]

\* An __init__ without the _initialized test: every call builds the
\* configuration again.
ConstructAlways(h, init, root, file, env) ==
  LET new == Len(h) + 1
      sys == Len(h) + 2
      h1 == Append(h, h[DEFAULT_CONFIG])
      h2 == [Append(h1, EmptyDict) EXCEPT ![new]["system"] = DictRef(sys)]
      h3 == IF file.status # "none" THEN LoadFromFile(h2, new, file).heap ELSE h2
      st == LoadFromEnv([heap |-> h3, exc |-> "none"], new, env)
  IN  [heap |-> st.heap, config |-> new,
       initialized |-> (st.exc = "none"), exc |-> st.exc]

\* ConfigManager.__init__(config_file) on the one instance.
Construct(h, init, root, file, env) ==
  IF init THEN [heap |-> h, config |-> root, initialized |-> init, exc |-> "none"]
  ELSE LET new == Len(h) + 1
           sys == Len(h) + 2
           h1 == Append(h, h[DEFAULT_CONFIG])
           h2 == [Append(h1, EmptyDict) EXCEPT ![new]["system"] = DictRef(sys)]
           h3 == IF file.status # "none" THEN LoadFromFile(h2, new, file).heap ELSE h2
           st == LoadFromEnv([heap |-> h3, exc |-> "none"], new, env)
       IN  [heap |-> st.heap, config |-> new,
            initialized |-> (st.exc = "none"), exc |-> st.exc]

\* The record kept of the most recent ConfigManager call: its name, its
\* key_path, its other argument (arg: the default of get, the value of
\* set), its file, the value returned (value, ok), the exception that left
\* it (raised) and the dict objects before it (pre).
CfgCall(name) ==
  [op |-> name, key_path |-> <<>>, arg |-> Absent, file |-> NoFile,
   value |-> Absent, ok |-> FALSE, raised |-> "none", pre |-> <<>>]

Defaults == {NoneVal, StrVal("fallback")}
PyValues == {NoneVal, StrVal("set"), ListVal, NewDict}
SetPaths ==
  { <<"scraper">>,
    <<"scraper", ".", "user_agent">>,
    <<"user_agent", ".", "scraper">>,
    <<"scraper", ".", "user_agent", ".", "system">>,
    <<"system", ".">> }

\* The import of ConfigManager.py: DEFAULT_CONFIG is built and
\* config_manager = ConfigManager() runs in the environment of the process.
CfgInit ==
  /\ BkIdle
  /\ SpIdle
  /\ BtIdle
  /\ AdvIdle
  /\ DlIdle
  /\ FilIdle
  /\ ItemIdle
  /\ SanIdle
  /\ RegEmpty
  /\ RunIdle
  /\ FacIdle
  /\ ConIdle
  /\ environ \in EnvChoices
  /\ LET r == Construct(ImportHeap, FALSE, None, NoFile, environ) IN
       /\ heap = r.heap
       /\ config = r.config
       /\ initialized = r.initialized
       /\ cfg = [CfgCall("import") EXCEPT !.raised = r.exc, !.pre = ImportHeap]
  /\ cfgOps = 0

\* The caller goes on after a call; a failed import ends the process.
CfgReturn ==
  /\ cfg.op # "none"
  /\ initialized
  /\ cfg' = CfgCall("none")
  /\ UNCHANGED <<heap, config, initialized, environ, cfgOps>>
  /\ UNCHANGED nonCfgVars

\* config_manager.get(key_path, default), also through the module's get.
CfgGet ==
  /\ cfg.op = "none"
  /\ \E key_path \in KeyPaths, default \in Defaults :
       LET r == Get(heap, config, key_path, default) IN
         /\ heap' = r.heap
         /\ cfg' = [CfgCall("get") EXCEPT !.key_path = key_path, !.arg = default,
                      !.value = r.value, !.raised = r.raised, !.pre = heap]
  /\ UNCHANGED <<config, initialized, environ, cfgOps>>
  /\ UNCHANGED nonCfgVars

\* config_manager.set(key_path, value); a dict passed as value is a new one.
CfgSet ==
  /\ cfg.op = "none"
  /\ cfgOps < MaxCfgOps
  /\ \E key_path \in SetPaths, v \in PyValues :
       LET h == IF v = NewDict THEN Append(heap, EmptyDict) ELSE heap
           value == IF v = NewDict THEN DictRef(Len(h)) ELSE v
           st == Set(h, config, key_path, value)
       IN  /\ heap' = st.heap
           /\ cfg' = [CfgCall("set") EXCEPT !.key_path = key_path, !.arg = value,
                        !.raised = st.exc, !.pre = heap]
  /\ cfgOps' = cfgOps + 1
  /\ UNCHANGED <<config, initialized, environ>>
  /\ UNCHANGED nonCfgVars

\* config_manager.load_from_file(file_path)
CfgLoadFromFile ==
  /\ cfg.op = "none"
  /\ cfgOps < MaxCfgOps
  /\ \E file \in FileInputs :
       LET r == LoadFromFile(heap, config, file) IN
         /\ heap' = r.heap
         /\ cfg' = [CfgCall("load_from_file") EXCEPT !.file = file, !.ok = r.ok,
                      !.pre = heap]
  /\ cfgOps' = cfgOps + 1
  /\ UNCHANGED <<config, initialized, environ>>
  /\ UNCHANGED nonCfgVars

\* ConfigManager(config_file) after the import: __new__ gives the one
\* instance and __init__ runs on it again.
CfgConstruct ==
  /\ cfg.op = "none"
  /\ \E file \in FileInputs \cup {NoFile} :
       LET r == Construct(heap, initialized, config, file, environ) IN
         /\ heap' = r.heap
         /\ config' = r.config
         /\ initialized' = r.initialized
         /\ cfg' = [CfgCall("construct") EXCEPT !.file = file, !.raised = r.exc,
                      !.pre = heap]
  /\ UNCHANGED <<environ, cfgOps>>
  /\ UNCHANGED nonCfgVars

CfgNext ==
  \/ CfgReturn
  \/ CfgGet
  \/ CfgSet
  \/ CfgLoadFromFile
  \/ CfgConstruct

SpecConfig == CfgInit /\ [][CfgNext]_vars

(***************************************************************************)
(* The filename sanitizers.  A string is the sequence of its characters.   *)
(* "remove" is sanitize_filename of ConditionScrapper, SpecieScrapper and  *)
(* BestiaryImageScrapper, "book" that of BookScrapper and "rules" that of  *)
(* RulesGlossaryScrapper.                                                  *)
(***************************************************************************)
MaxNameLen == 3

\* The characters of the class [\\/*?:"<>|] and of invalid_chars.
InvalidChars == {"\\", "/", "*", "?", ":", "\"", "<", ">", "|"}
invalid_chars == <<"<", ">", ":", "\"", "/", "\\", "|", "?", "*">>
Whitespace == {" "}
Chars == InvalidChars \cup Whitespace \cup {"a", "."}
Strings == UNION {[1..n -> Chars] : n \in 0..MaxNameLen}
Sanitizers == {"remove", "book", "rules"}

\* re.sub with count=1: only the first match is replaced.
RECURSIVE SubInvalidFirst(_, _)
SubInvalidFirst(s, repl) ==
  IF s = <<>> THEN <<>>
  ELSE IF Head(s) \in InvalidChars THEN repl \o Tail(s)
  ELSE <<Head(s)>> \o SubInvalidFirst(Tail(s), repl)

\* re.sub(r'[\\/*?:"<>|]', repl, s)
RECURSIVE SubInvalid(_, _)
SubInvalid(s, repl) ==
  IF s = <<>> THEN <<>>
  ELSE (IF Head(s) \in InvalidChars THEN repl ELSE <<Head(s)>>)
         \o SubInvalid(Tail(s), repl)

\* re.sub(r'\s+', " ", s)
RECURSIVE SubSpaces(_)
SubSpaces(s) ==
  IF s = <<>> THEN <<>>
  ELSE IF Head(s) \in Whitespace
    THEN IF Tail(s) # <<>> /\ Head(Tail(s)) \in Whitespace
           THEN SubSpaces(Tail(s))
           ELSE <<" ">> \o SubSpaces(Tail(s))
  ELSE <<Head(s)>> \o SubSpaces(Tail(s))

\* s.lstrip(chars), s.rstrip(chars), s.strip(chars)
RECURSIVE LStrip(_, _)
LStrip(s, chars) ==
  IF s # <<>> /\ Head(s) \in chars THEN LStrip(Tail(s), chars) ELSE s

RECURSIVE RStrip(_, _)
RStrip(s, chars) ==
  IF s # <<>> /\ s[Len(s)] \in chars
    THEN RStrip(SubSeq(s, 1, Len(s) - 1), chars) ELSE s

Strip(s, chars) == RStrip(LStrip(s, chars), chars)

\* s.replace(char, new)
RECURSIVE Replace(_, _, _)
Replace(s, char, new) ==
  IF s = <<>> THEN <<>>
  ELSE (IF Head(s) = char THEN new ELSE <<Head(s)>>) \o Replace(Tail(s), char, new)

\* for char in invalid_chars: name = name.replace(char, '_')
RECURSIVE ReplaceEach(_, _)
ReplaceEach(name, chars) ==
  IF chars = <<>> THEN name
  ELSE ReplaceEach(Replace(name, Head(chars), <<"_">>), Tail(chars))

\* sanitize_filename(name) of the three kinds.
SanitizeRemove(name) == SubInvalid(name, <<>>)

SanitizeBook(name) == Strip(SubSpaces(SubInvalid(name, <<"_">>)), Whitespace)

SanitizeRules(name) ==
  LET stripped == Strip(Strip(ReplaceEach(name, invalid_chars), Whitespace), {"."})
  IN  IF stripped = <<>> THEN <<"u", "n", "n", "a", "m", "e", "d">> ELSE stripped

sanitize_filename(fn, name) ==
  CASE fn = "remove" -> SanitizeRemove(name)
    [] fn = "book" -> SanitizeBook(name)
    [] OTHER -> SanitizeRules(name)

SanitizeFilename ==
  /\ san.op = "input"
  /\ san' = [op |-> "sanitize_filename", fn |-> san.fn, name |-> san.name,
             out |-> sanitize_filename(san.fn, san.name)]
  /\ UNCHANGED nonSanVars

SanInit ==
  /\ BkIdle
  /\ SpIdle
  /\ BtIdle
  /\ AdvIdle
  /\ DlIdle
  /\ FilIdle
  /\ ItemIdle
  /\ RegEmpty
  /\ RunIdle
  /\ FacIdle
  /\ ConIdle
  /\ CfgIdle
  /\ san \in {[op |-> "input", fn |-> fn, name |-> name, out |-> <<>>] :
                fn \in Sanitizers, name \in Strings}

SanNext == SanitizeFilename

SpecSanitize == SanInit /\ [][SanNext]_vars

(***************************************************************************)
(* The per-item loops and the saving of the extracted records:             *)
(* ConditionScrapper.main ("condition"), process_monster_batch of          *)
(* BestiaryImageScrapper ("bestiary"), scrape_rules_glossary ("rules") and *)
(* scrape_species with process_specie ("specie").                          *)
(***************************************************************************)
ItemScrapers == {"condition", "bestiary", "rules", "specie"}

\* Python's None as a source, printed "None" by an f-string.
NoSource == <<"None">>
NameNone == <<"N", "o", "n", "e">>
NameUnknown == <<"u", "n", "k", "n", "o", "w", "n">>
ExtJson == <<".", "j", "s", "o", "n">>

\* The records a list item can show: name and source.
ItemRecords ==
  { [name |-> <<"A">>, source |-> <<"X">>],
    [name |-> <<"a", "/">>, source |-> <<"X">>],
    [name |-> <<"A">>, source |-> NoSource] }

\* str.lower()
LowerChar(c) ==
  CASE c = "A" -> "a"
    [] c = "X" -> "x"
    [] c = "N" -> "n"
    [] OTHER -> c

LowerStr(s) == [i \in 1..Len(s) |-> LowerChar(s[i])]

\* f"{source}"
FormatSource(source) == IF source = NoSource THEN NameNone ELSE source

\* The path save_condition_data opens.
ConditionPath(name, source) ==
  [dir |-> "Data/Condition",
   file |-> SanitizeRemove(LowerStr(name)) \o <<"_">>
              \o (IF source # NoSource /\ source # <<>>
                    THEN SanitizeRemove(LowerStr(source)) ELSE NameUnknown)
              \o ExtJson]

\* The path save_specie_data opens.
SpeciePath(name, source) ==
  [dir |-> "Data/Specie/Json",
   file |-> SanitizeRemove(LowerStr(name \o <<"_">> \o FormatSource(source)))
              \o ExtJson]

\* The path save_rule_data opens (output_dir is Data/RulesGlossary).
RulePath(name, source) ==
  [dir |-> "Data/RulesGlossary",
   file |-> SanitizeRules(name \o <<"_">> \o FormatSource(source) \o ExtJson)]

RecordPath(scr, name, source) ==
  CASE scr = "condition" -> ConditionPath(name, source)
    [] scr = "specie" -> SpeciePath(name, source)
    [] OTHER -> RulePath(name, source)

\* open(path, 'w') and json.dump: the file at path is created or replaced.
WriteFile(files, path, run) ==
  {f \in files : f.path # path} \cup {[path |-> path, by |-> run]}

\* A save that keeps an existing file and writes beside it.
SaveRecordBeside(st, scr, rec, run, opens) ==
  LET path == RecordPath(scr, rec.name, rec.source)
      taken == \E f \in st.fs : f.path = path
      used == IF taken THEN [path EXCEPT !.file = @ \o <<"_", "1">>] ELSE path
  IN  IF opens
        THEN [fs |-> WriteFile(st.fs, used, run),
              written |-> st.written \cup
                 {[name |-> rec.name, source |-> rec.source, path |-> used,
                   run |-> run]},
              writes |-> st.writes + 1]
        ELSE st

\* A save that keeps the record in memory for a write at the end of the run.
SaveRecordBatched(st, scr, rec, run, opens) ==
  LET path == RecordPath(scr, rec.name, rec.source) IN
    IF opens
      THEN [fs |-> st.fs,
            written |-> st.written \cup
               {[name |-> rec.name, source |-> rec.source, path |-> path,
                 run |-> run]},
            writes |-> st.writes + 1]
      ELSE st

\* save_condition_data / save_specie_data / save_rule_data on record rec:
\* the files, the saves made and the number of writes of this iteration
\* afterwards.  opens tells whether open() and json.dump succeed; an
\* exception is caught and logged.
SaveRecord(st, scr, rec, run, opens) ==
  LET path == RecordPath(scr, rec.name, rec.source) IN
    IF opens
      THEN [fs |-> WriteFile(st.fs, path, run),
            written |-> st.written \cup
               {[name |-> rec.name, source |-> rec.source, path |-> path,
                 run |-> run]},
            writes |-> st.writes + 1]
      ELSE st

\* The record kept of the most recent iteration: its index, whether an
\* element handle taken from the list was used (handle), the value of dom
\* when the list that gave the handle was queried (listAt) and when the
\* handle was taken from it (domAtUse), the number of writes of the item's
\* record (writes), whether the record was changed after a write (mutated)
\* and whether the iteration ended in its except clause (failed).
Iteration(i) ==
  [op |-> "item", idx |-> i, handle |-> FALSE, listAt |-> 0, domAtUse |-> 0,
   writes |-> 0, mutated |-> FALSE, failed |-> FALSE]

SaveState == [fs |-> fs, written |-> written, writes |-> 0]

\* Where the loop stands after the iteration of index i: every per-item
\* loop wraps its body in try/except Exception, logs, and lets the for
\* statement take the next index (ConditionScrapper.main lines 355-375).
NextIteration(failed, i) == [pc |-> "loop", idx |-> i + 1]

\* The path of a downloaded bestiary image.
ImagePath(kind, name, source) ==
  [dir |-> kind,
   file |-> SanitizeRemove(LowerStr(name) \o <<"_">> \o
               LowerStr(IF source = NoSource THEN NameUnknown ELSE source))
              \o <<".", "w", "e", "b", "p">>]

\* The list is queried and counted before the loop (ConditionScrapper.main
\* lines 350-352 and the like); a rerun starts here again.
ItemList ==
  /\ it_pc = "list"
  /\ listAt' = dom
  /\ it_total' = Len(page)
  /\ it_idx' = 0
  /\ attempts' = <<>>
  /\ rg_acc' = NoAccount
  /\ it_pc' = "loop"
  /\ it' = [op |-> "list"]
  /\ UNCHANGED <<it_scraper, it_run, page, dom, fs, written>>
  /\ UNCHANGED nonItemVars

\* One iteration of the loop of ConditionScrapper.main (lines 355-375).
ItemCondition ==
  /\ it_pc = "loop" /\ it_scraper = "condition" /\ it_idx < it_total
  /\ \E sel \in {"ok", "find_raises", "index_error"},
        ext \in {"record", "none_before_click", "none_after_click"},
        opens \in BOOLEAN, back \in BOOLEAN :
       LET rec == page[it_idx + 1]
           lst == IF sel = "find_raises" THEN listAt ELSE dom
           clicked == sel = "ok" /\ ext # "none_before_click"
           dom1 == IF clicked THEN dom + 1 ELSE dom
           st == IF sel = "ok" /\ ext = "record"
                   THEN SaveRecord(SaveState, "condition", rec, it_run, opens)
                   ELSE SaveState
           dom2 == IF sel = "ok" /\ back THEN dom1 + 1 ELSE dom1
       IN  /\ listAt' = lst
           /\ dom' = dom2
           /\ fs' = st.fs
           /\ written' = st.written
           /\ it' = [Iteration(it_idx) EXCEPT !.handle = (sel = "ok"),
                       !.listAt = lst, !.domAtUse = dom, !.writes = st.writes,
                       !.failed = (sel # "ok" \/ ~back)]
  /\ attempts' = Append(attempts, [idx |-> it_idx, failed |-> it'.failed,
                                   writes |-> it'.writes])
  /\ it_pc' = NextIteration(it'.failed, it_idx).pc
  /\ it_idx' = NextIteration(it'.failed, it_idx).idx
  /\ UNCHANGED <<it_scraper, it_run, rg_acc, page, it_total>>
  /\ UNCHANGED nonItemVars

\* One iteration of process_monster_batch (BestiaryImageScrapper.py lines
\* 160-293): the handle comes from monster_elements, the list main queried
\* before the batches.
ItemBestiary ==
  /\ it_pc = "loop" /\ it_scraper = "bestiary" /\ it_idx < it_total
  /\ \E ext \in {"click_raises", "no_token", "token", "token_and_full"},
        downloads \in BOOLEAN :
       LET rec == page[it_idx + 1]
           dom1 == CASE ext = "click_raises" -> dom
                     [] ext = "token_and_full" -> dom + 2
                     [] OTHER -> dom + 1
           f1 == IF ext \in {"token", "token_and_full"} /\ downloads
                   THEN WriteFile(fs, ImagePath("Data/Bestiary/Images/tokens",
                                                rec.name, rec.source), it_run)
                   ELSE fs
           f2 == IF ext = "token_and_full" /\ downloads
                   THEN WriteFile(f1, ImagePath("Data/Bestiary/Images/full",
                                                rec.name, rec.source), it_run)
                   ELSE f1
       IN  /\ dom' = dom1
           /\ fs' = f2
           /\ it' = [Iteration(it_idx) EXCEPT !.handle = TRUE,
                       !.listAt = listAt, !.domAtUse = dom,
                       !.failed = (ext = "click_raises")]
  /\ attempts' = Append(attempts, [idx |-> it_idx, failed |-> it'.failed,
                                   writes |-> it'.writes])
  /\ it_pc' = NextIteration(it'.failed, it_idx).pc
  /\ it_idx' = NextIteration(it'.failed, it_idx).idx
  /\ UNCHANGED <<it_scraper, it_run, rg_acc, page, it_total, listAt, written>>
  /\ UNCHANGED nonItemVars

\* Bookkeeping that lets an item without basic data go unrecorded.
RulesAccountSilent(acc, index, outcome) ==
  CASE outcome = "saved" -> [acc EXCEPT !.success = @ + 1]
    [] outcome = "no_basic_data" -> acc
    [] OTHER -> [acc EXCEPT !.failed = Append(@, index)]

\* The bookkeeping of one iteration of scrape_rules_glossary: success_count
\* += 1 when save_rule_data returned True (line 719), and
\* failed_items.append(index) on an IndexError (697), on missing basic data
\* (706), when the save failed (721), on a stale element (734) and on any
\* other exception (749).
RulesAccount(acc, index, outcome) ==
  CASE outcome = "saved" -> [acc EXCEPT !.success = @ + 1]
    [] OTHER -> [acc EXCEPT !.failed = Append(@, index)]

\* scrape_rules_glossary refreshes its list when index % 30 == 0.
RefreshEvery == 30

\* One iteration of the loop of scrape_rules_glossary (lines 674-749).
\* ref: the outcome of the list refresh, when one is due; sel: of
\* list_items[index]; ext: of the extraction, "stale" being a
\* StaleElementReferenceException that reaches the loop, after which the
\* list is queried again (restale: with what outcome).
ItemRules ==
  /\ it_pc = "loop" /\ it_scraper = "rules" /\ it_idx < it_total
  /\ \E ref \in {"ok", "raise"}, sel \in {"ok", "index_error"},
        ext \in {"record", "no_basic_data", "stale"},
        opens \in BOOLEAN, restale \in {"ok", "raise"} :
       LET rec == page[it_idx + 1]
           due == it_idx % RefreshEvery = 0
           abort == due /\ ref = "raise" /\ it_idx = 0
           lst == IF due /\ ref = "ok" THEN dom ELSE listAt
           used == ~abort /\ sel = "ok"
           clicked == used /\ ext # "no_basic_data"
           dom1 == IF clicked THEN dom + 1 ELSE dom
           st == IF used /\ ext = "record"
                   THEN SaveRecord(SaveState, "rules", rec, it_run, opens)
                   ELSE SaveState
           lst2 == IF used /\ ext = "stale" /\ restale = "ok" THEN dom1 ELSE lst
       IN  /\ listAt' = lst2
           /\ dom' = dom1
           /\ fs' = st.fs
           /\ written' = st.written
           /\ it' = [Iteration(it_idx) EXCEPT !.handle = used,
                       !.listAt = lst, !.domAtUse = dom, !.writes = st.writes,
                       !.failed = (~used \/ ext # "record" \/ st.writes = 0)]
           /\ rg_acc' =
                IF abort THEN rg_acc
                ELSE RulesAccount(rg_acc, it_idx,
                       CASE sel = "index_error" -> "index_error"
                         [] ext = "record" /\ st.writes = 1 -> "saved"
                         [] ext = "record" -> "not_saved"
                         [] OTHER -> ext)
           /\ it_pc' = IF abort THEN "aborted"
                       ELSE NextIteration(it'.failed, it_idx).pc
           /\ attempts' = IF abort THEN attempts
                          ELSE Append(attempts, [idx |-> it_idx,
                                                 failed |-> it'.failed,
                                                 writes |-> it'.writes])
           /\ it_idx' = IF abort THEN it_idx
                        ELSE NextIteration(it'.failed, it_idx).idx
  /\ UNCHANGED <<it_scraper, it_run, page, it_total>>
  /\ UNCHANGED nonItemVars

\* One iteration of the loop of scrape_species (lines 1026-1041) with
\* process_specie (lines 841-920): the species page is opened by its URL,
\* the record is saved after the traits, again after the Info tab and again
\* after the Images tab, and marked processed at the end.
ItemSpecie ==
  /\ it_pc = "loop" /\ it_scraper = "specie" /\ it_idx < it_total
  /\ \E nav \in {"ok", "raise"}, info \in BOOLEAN, images \in BOOLEAN,
        opens \in BOOLEAN :
       LET rec == page[it_idx + 1]
           s1 == IF nav = "ok"
                   THEN SaveRecord(SaveState, "specie", rec, it_run, opens)
                   ELSE SaveState
           s2 == IF nav = "ok" /\ info
                   THEN SaveRecord(s1, "specie", rec, it_run, opens) ELSE s1
           s3 == IF nav = "ok" /\ images
                   THEN SaveRecord(s2, "specie", rec, it_run, opens) ELSE s2
       IN  /\ dom' = IF nav = "ok" THEN dom + 1 ELSE dom
           /\ fs' = s3.fs
           /\ written' = s3.written
           /\ it' = [Iteration(it_idx) EXCEPT !.writes = s3.writes,
                       !.mutated = (s3.writes >= 1),
                       !.failed = (nav = "raise")]
  /\ attempts' = Append(attempts, [idx |-> it_idx, failed |-> it'.failed,
                                   writes |-> it'.writes])
  /\ it_pc' = NextIteration(it'.failed, it_idx).pc
  /\ it_idx' = NextIteration(it'.failed, it_idx).idx
  /\ UNCHANGED <<it_scraper, it_run, rg_acc, page, it_total, listAt>>
  /\ UNCHANGED nonItemVars

\* The loop has run over range(total).
ItemLoopDone ==
  /\ it_pc = "loop" /\ it_idx = it_total
  /\ it_pc' = "done"
  /\ it' = [op |-> "done"]
  /\ UNCHANGED <<it_scraper, it_run, page, it_total, it_idx, dom, listAt, fs,
                 written, attempts, rg_acc>>
  /\ UNCHANGED nonItemVars

\* The scraper is started again in a new process; the files stay.
ItemRerun ==
  /\ it_pc \in {"done", "aborted"} /\ it_run = "first"
  /\ it_run' = "rerun"
  /\ it_pc' = "list"
  /\ dom' = 0
  /\ listAt' = 0
  /\ it_idx' = 0
  /\ it_total' = 0
  /\ attempts' = <<>>
  /\ rg_acc' = NoAccount
  /\ it' = [op |-> "none"]
  /\ UNCHANGED <<it_scraper, page, fs, written>>
  /\ UNCHANGED nonItemVars

ItemInit ==
  /\ BkIdle
  /\ SpIdle
  /\ BtIdle
  /\ AdvIdle
  /\ DlIdle
  /\ FilIdle
  /\ RegEmpty
  /\ RunIdle
  /\ FacIdle
  /\ ConIdle
  /\ CfgIdle
  /\ SanIdle
  /\ it_scraper \in ItemScrapers
  /\ page \in UNION {[1..n -> ItemRecords] : n \in 0..MaxItems}
  /\ it_pc = "list"
  /\ it_run = "first"
  /\ it_total = 0
  /\ it_idx = 0
  /\ dom = 0
  /\ listAt = 0
  /\ fs = {}
  /\ written = {}
  /\ attempts = <<>>
  /\ rg_acc = NoAccount
  /\ it = [op |-> "none"]

ItemNext ==
  \/ ItemList
  \/ ItemCondition
  \/ ItemBestiary
  \/ ItemRules
  \/ ItemSpecie
  \/ ItemLoopDone
  \/ ItemRerun

SpecItems == ItemInit /\ [][ItemNext]_vars

(***************************************************************************)
(* disable_filters.  The page shows filter pills, each with a data-state   *)
(* (yes, no or ignore) and, for some, the class                            *)
(* fltr__mini-pill--default-desel.  ConditionScrapper.disable_filters      *)
(* (and the older src/Scraper/ConditionScrapper.py) query the pills that   *)
(* are not ignored and click them, again and again, until the query finds  *)
(* none; BestiaryImageScrapper.disable_filters makes at most max_attempts  *)
(* passes over the pills it selects; SpecieScrapper.extract_species_       *)
(* metadata makes one pass over the elements that carry a data-state.      *)
(***************************************************************************)
MaxPills == 2

\* Counts of clicks and of passes are kept up to these values.
MaxClicks == 3
MaxPasses == 4

FilterVariants == {"condition", "bestiary", "specie"}

PillStates == {"yes", "no", "ignore"}

Pill == [state : PillStates, desel : BOOLEAN]

\* The page: on a page "to_ignore" every query answers and a click moves
\* the pill to ignore; on a page "any" a query or a click may raise and a
\* click may leave the pill in another state that is not ignore.
FilterEnvs == {"to_ignore", "any"}

ClickOutcomes(env) ==
  IF env = "to_ignore" THEN {"ignore"} ELSE {"ignore", "toggle", "raises"}

QueryOutcomes(env) ==
  IF env = "to_ignore" THEN {"ok"} ELSE {"ok", "raises"}

Indices(pills) == [i \in 1..Len(pills) |-> i]

\* div.fltr__mini-pill:not([data-state='ignore'])
NotIgnored(pills) ==
  SelectSeq(Indices(pills), LAMBDA i : pills[i].state # "ignore")

\* .fltr__mini-pill[data-state='yes'] followed by
\* .fltr__mini-pill--default-desel[data-state='no']
ActivePlusDeselected(pills) ==
  SelectSeq(Indices(pills), LAMBDA i : pills[i].state = "yes")
    \o SelectSeq(Indices(pills),
                 LAMBDA i : pills[i].desel /\ pills[i].state = "no")

\* What the click script does to pill i.
ClickPill(pills, i, o) ==
  CASE o = "ignore" -> [pills EXCEPT ![i].state = "ignore"]
    [] o = "toggle" -> [pills EXCEPT
                          ![i].state = IF @ = "yes" THEN "no" ELSE "yes"]
    [] OTHER -> pills

CountClick(clicks, i, o) ==
  IF o = "raises" \/ clicks[i] = MaxClicks THEN clicks
  ELSE [clicks EXCEPT ![i] = @ + 1]

\* Set a limit to avoid infinite loops (BestiaryImageScrapper.py line 326).
max_attempts == 3

\* The first query of each function.
FilStart ==
  /\ fl_pc = "start"
  /\ \E o \in QueryOutcomes(fl_env) :
       CASE fl_variant = "condition" ->
              /\ fl_pc' = "query"
              /\ UNCHANGED <<fl_todo, fl_result>>
         [] fl_variant = "bestiary" ->
              IF o = "raises"
                THEN /\ fl_pc' = "done"
                     /\ fl_result' = "False"
                     /\ UNCHANGED fl_todo
                ELSE /\ fl_pc' = "while"
                     /\ fl_todo' = ActivePlusDeselected(fl_pills)
                     /\ UNCHANGED fl_result
         [] OTHER ->
              IF o = "raises"
                THEN /\ fl_pc' = "reset"
                     /\ UNCHANGED <<fl_todo, fl_result>>
                ELSE /\ fl_pc' = IF fl_pills = <<>> THEN "reset" ELSE "pass"
                     /\ fl_todo' = Indices(fl_pills)
                     /\ UNCHANGED fl_result
  /\ UNCHANGED <<fl_variant, fl_env, fl_first, fl_pills, fl_attempt, fl_clicks>>
  /\ UNCHANGED nonFilVars

\* The top of the while True loop of ConditionScrapper.disable_filters
\* (lines 93-96): the pills that are not ignored are queried; none ends
\* the loop, and an exception of the query ends the function.
FilQuery ==
  /\ fl_pc = "query"
  /\ \E o \in QueryOutcomes(fl_env) :
       LET pills == NotIgnored(fl_pills)
       IN  IF o = "raises" \/ pills = <<>>
             THEN /\ fl_pc' = "done"
                  /\ fl_result' = "None"
                  /\ UNCHANGED <<fl_todo, fl_attempt>>
             ELSE /\ fl_pc' = "pass"
                  /\ fl_todo' = pills
                  /\ fl_attempt' = IF fl_attempt = MaxPasses THEN fl_attempt
                                   ELSE fl_attempt + 1
                  /\ UNCHANGED fl_result
  /\ UNCHANGED <<fl_variant, fl_env, fl_first, fl_pills, fl_clicks>>
  /\ UNCHANGED nonFilVars

\* The next pill of the pass is scrolled to and clicked; an exception is
\* caught and the pass goes on (ConditionScrapper.py lines 97-104,
\* BestiaryImageScrapper.py lines 334-357).
FilClick ==
  /\ fl_pc = "pass" /\ fl_variant \in {"condition", "bestiary"}
  /\ fl_todo # <<>>
  /\ \E o \in ClickOutcomes(fl_env) :
       /\ fl_pills' = ClickPill(fl_pills, Head(fl_todo), o)
       /\ fl_clicks' = CountClick(fl_clicks, Head(fl_todo), o)
  /\ fl_todo' = Tail(fl_todo)
  /\ fl_pc' = IF Tail(fl_todo) # <<>> THEN "pass"
              ELSE IF fl_variant = "condition" THEN "query" ELSE "recheck"
  /\ UNCHANGED <<fl_variant, fl_env, fl_first, fl_attempt, fl_result>>
  /\ UNCHANGED nonFilVars

\* while attempt < max_attempts and all_filters (BestiaryImageScrapper.py
\* lines 328-329); after the loop the function returns True.
FilWhile ==
  /\ fl_pc = "while"
  /\ IF fl_attempt < max_attempts /\ fl_todo # <<>>
       THEN /\ fl_attempt' = fl_attempt + 1
            /\ fl_pc' = "pass"
            /\ UNCHANGED fl_result
       ELSE /\ fl_pc' = "done"
            /\ fl_result' = "True"
            /\ UNCHANGED fl_attempt
  /\ UNCHANGED <<fl_variant, fl_env, fl_first, fl_pills, fl_todo, fl_clicks>>
  /\ UNCHANGED nonFilVars

\* The pills are selected again after a pass (BestiaryImageScrapper.py
\* lines 361-374): none, or an exception of the query, leaves the loop.
FilRecheck ==
  /\ fl_pc = "recheck"
  /\ \E o \in QueryOutcomes(fl_env) :
       IF o = "raises" \/ ActivePlusDeselected(fl_pills) = <<>>
         THEN /\ fl_pc' = "done"
              /\ fl_result' = "True"
              /\ UNCHANGED fl_todo
         ELSE /\ fl_pc' = "while"
              /\ fl_todo' = ActivePlusDeselected(fl_pills)
              /\ UNCHANGED fl_result
  /\ UNCHANGED <<fl_variant, fl_env, fl_first, fl_pills, fl_attempt, fl_clicks>>
  /\ UNCHANGED nonFilVars

\* One element of the pass of extract_species_metadata (SpecieScrapper.py
\* lines 284-291): its data-state is read and it is clicked unless that is
\* ignore; an exception is caught.
FilSpecieElement ==
  /\ fl_pc = "pass" /\ fl_variant = "specie"
  /\ fl_todo # <<>>
  /\ \E r \in QueryOutcomes(fl_env), o \in ClickOutcomes(fl_env) :
       LET i == Head(fl_todo)
           clicks == r = "ok" /\ fl_pills[i].state # "ignore"
       IN  /\ fl_pills' = IF clicks THEN ClickPill(fl_pills, i, o) ELSE fl_pills
           /\ fl_clicks' = IF clicks THEN CountClick(fl_clicks, i, o)
                           ELSE fl_clicks
  /\ fl_todo' = Tail(fl_todo)
  /\ fl_pc' = IF Tail(fl_todo) # <<>> THEN "pass" ELSE "reset"
  /\ UNCHANGED <<fl_variant, fl_env, fl_first, fl_attempt, fl_result>>
  /\ UNCHANGED nonFilVars

\* The reset buttons are clicked (SpecieScrapper.py lines 293-301); the
\* page either keeps its pills or puts them back as it loaded them.
FilSpecieReset ==
  /\ fl_pc = "reset"
  /\ \E restores \in BOOLEAN :
       fl_pills' = IF restores THEN fl_first ELSE fl_pills
  /\ fl_pc' = "done"
  /\ fl_result' = "None"
  /\ UNCHANGED <<fl_variant, fl_env, fl_first, fl_todo, fl_attempt, fl_clicks>>
  /\ UNCHANGED nonFilVars

FilInit ==
  /\ BkIdle
  /\ SpIdle
  /\ BtIdle
  /\ AdvIdle
  /\ DlIdle
  /\ RegEmpty
  /\ RunIdle
  /\ FacIdle
  /\ ConIdle
  /\ CfgIdle
  /\ SanIdle
  /\ ItemIdle
  /\ fl_variant \in FilterVariants
  /\ fl_env \in FilterEnvs
  /\ fl_first \in UNION {[1..n -> Pill] : n \in 0..MaxPills}
  /\ fl_pills = fl_first
  /\ fl_pc = "start"
  /\ fl_todo = <<>>
  /\ fl_attempt = 0
  /\ fl_clicks = [i \in 1..Len(fl_first) |-> 0]
  /\ fl_result = "none"

FilNext ==
  \/ FilStart
  \/ FilQuery
  \/ FilClick
  \/ FilWhile
  \/ FilRecheck
  \/ FilSpecieElement
  \/ FilSpecieReset

SpecFilters == FilInit /\ [][FilNext]_vars

\* The function is one thread of control that is never suspended for good.
SpecFiltersFair == SpecFilters /\ WF_vars(FilNext)

(***************************************************************************)
(* Image downloads: download_image of BestiaryImageScrapper.py (aiohttp)   *)
(* and download_image_sync of SpecieScrapper.py (requests).  Both send the *)
(* request, test the status against 200 and only then create the directory *)
(* and open the target with mode 'wb'; the whole body is inside            *)
(* try/except Exception, which logs and returns False.                      *)
(***************************************************************************)
DownloadFunctions == {"download_image", "download_image_sync"}

TargetPaths == {"tokens/a.webp", "full/a.webp"}

\* What a target path holds: nothing, a file from an earlier run, the
\* image, or a file that was opened for writing and not completed.
FileContents == {"absent", "stale", "image", "truncated"}

HTTP_OK == 200

Statuses == {HTTP_OK, 404, 500}

CallOutcomes == {"ok", "raises"}

\* A download that opens the target before it looks at the status.
DownloadOpenFirst(fn, files, save_path, cookies, request, status, opens, body) ==
  CASE fn = "download_image_sync" /\ cookies = "raises" ->
         [files |-> files, result |-> "False"]
    [] request = "raises" -> [files |-> files, result |-> "False"]
    [] opens = "raises" -> [files |-> files, result |-> "False"]
    [] status # HTTP_OK ->
         [files |-> [files EXCEPT ![save_path] = "truncated"],
          result |-> "False"]
    [] body = "raises" ->
         [files |-> [files EXCEPT ![save_path] = "truncated"],
          result |-> "False"]
    [] OTHER ->
         [files |-> [files EXCEPT ![save_path] = "image"], result |-> "True"]

\* download_image(session, image_url, save_path) and
\* download_image_sync(driver, image_url, save_path): the files after the
\* call and the value returned.  cookies is the outcome of
\* driver.get_cookies() (download_image_sync only), request of
\* session.get, opens of os.makedirs and open, body of reading the
\* response into the file.
Download(fn, files, save_path, cookies, request, status, opens, body) ==
  CASE fn = "download_image_sync" /\ cookies = "raises" ->
         [files |-> files, result |-> "False"]
    [] request = "raises" -> [files |-> files, result |-> "False"]
    [] status # HTTP_OK -> [files |-> files, result |-> "False"]
    [] opens = "raises" -> [files |-> files, result |-> "False"]
    [] body = "raises" ->
         [files |-> [files EXCEPT ![save_path] = "truncated"],
          result |-> "False"]
    [] OTHER ->
         [files |-> [files EXCEPT ![save_path] = "image"], result |-> "True"]

DownloadImage ==
  \E fn \in DownloadFunctions, save_path \in TargetPaths,
     cookies \in CallOutcomes, request \in CallOutcomes,
     status \in Statuses, opens \in CallOutcomes, body \in CallOutcomes :
    LET r == Download(fn, dl_fs, save_path, cookies, request, status, opens,
                      body)
    IN  /\ dl_fs' = r.files
        /\ dl' = [op |-> "download", fn |-> fn, save_path |-> save_path,
                  cookies |-> cookies, request |-> request,
                  status |-> status, pre |-> dl_fs, result |-> r.result]
        /\ UNCHANGED nonDlVars

DlInit ==
  /\ BkIdle
  /\ SpIdle
  /\ BtIdle
  /\ AdvIdle
  /\ RegEmpty
  /\ RunIdle
  /\ FacIdle
  /\ ConIdle
  /\ CfgIdle
  /\ SanIdle
  /\ ItemIdle
  /\ FilIdle
  /\ dl_fs \in [TargetPaths -> {"absent", "stale"}]
  /\ dl = [op |-> "none"]

DlNext == DownloadImage

SpecDownload == DlInit /\ [][DlNext]_vars

(***************************************************************************)
(* AdventureScrapper.scrape_adventures.  The browser saves each download   *)
(* in the output directory under a name of its own; wait_for_download      *)
(* looks for completed .md files there and download_adventure_as_markdown  *)
(* gives the file it reports the name of the adventure.  A file is a       *)
(* record of its name and of the adventure whose download produced it      *)
(* (content): name i > 0 is the file name made from the name and date of   *)
(* adventure i, name -i the browser's name for the download of adventure   *)
(* i.  The directory Data/Downloads does not exist and the platform is not *)
(* Windows, so only the output directory is looked at.                     *)
(***************************************************************************)
MaxAdventures == 3

\* What the browser does with the click on "Download Adventure as
\* Markdown": a button cannot be clicked, a call raises, the file has
\* arrived when wait_for_download looks, no file arrives, or the file
\* arrives after wait_for_download has returned.
BrowserOutcomes == {"no_click", "raises", "arrived", "none", "late"}

BrowserFile(i) == [name |-> 0 - i, content |-> i]

\* wait_for_download(directory): the completed .md file with the latest
\* modification time, as soon as there is one and no temporary file;
\* (False, None) after the timeout.
WaitForDownload(files) ==
  IF files # <<>>
    THEN [found |-> TRUE, file |-> files[Len(files)]]
    ELSE [found |-> FALSE, file |-> BrowserFile(0)]

\* os.remove(filepath) of an existing target and os.rename(downloaded_file,
\* filepath): the file keeps its modification time.
RenameTo(files, file, target) ==
  LET kept == SelectSeq(files, LAMBDA f : f.name # target \/ f = file)
  IN  [k \in 1..Len(kept) |->
         IF kept[k] = file THEN [kept[k] EXCEPT !.name = target] ELSE kept[k]]

\* download_adventure_as_markdown for adventure i: the directory and the
\* value returned.  fsok tells whether os.remove and os.rename succeed; an
\* exception of theirs is caught and the function still returns True.
DownloadAdventure(files, i, o, fsok) ==
  LET arrived == IF o = "arrived" THEN Append(files, BrowserFile(i)) ELSE files
      w == WaitForDownload(arrived)
      named == IF w.found /\ fsok /\ w.file.name # i
                 THEN RenameTo(arrived, w.file, i) ELSE arrived
      late == IF o = "late" THEN Append(named, BrowserFile(i)) ELSE named
  IN  IF o \in {"no_click", "raises"}
        THEN [files |-> files, success |-> FALSE]
        ELSE [files |-> late, success |-> w.found]

\* cookie_handler.handle_consent(driver, wait) after the first navigation
\* (lines 548-553).
AdvConsent ==
  /\ adv_pc = "consent"
  /\ adv_consent' = adv_consent + 1
  /\ adv_pc' = "extract"
  /\ UNCHANGED <<adv_total, adv_idx, adv_dir, adv_success, adv_loopConsent>>
  /\ UNCHANGED nonAdvVars

\* extract_adventure_metadata: no adventure ends the run (lines 559-563).
AdvExtract ==
  /\ adv_pc = "extract"
  /\ \E n \in 0..MaxAdventures :
       /\ adv_total' = n
       /\ adv_pc' = IF n = 0 THEN "returned" ELSE "download"
  /\ adv_idx' = 0
  /\ UNCHANGED <<adv_dir, adv_success, adv_consent, adv_loopConsent>>
  /\ UNCHANGED nonAdvVars

\* The download of the adventure of the current iteration (lines 578-587).
AdvDownload ==
  /\ adv_pc = "download"
  /\ \E o \in BrowserOutcomes, fsok \in BOOLEAN :
       LET r == DownloadAdventure(adv_dir, adv_idx + 1, o, fsok)
       IN  /\ adv_dir' = r.files
           /\ adv_success' = IF r.success THEN adv_success + 1 ELSE adv_success
  /\ adv_pc' = "return"
  /\ UNCHANGED <<adv_total, adv_idx, adv_consent, adv_loopConsent>>
  /\ UNCHANGED nonAdvVars

\* The return to the list (lines 589-606): driver.get, handle_consent
\* again, the wait for the list; an exception of driver.get leaves the
\* loop for the except clause of scrape_adventures.
AdvReturn ==
  /\ adv_pc = "return"
  /\ \E nav \in {"ok", "raises"} :
       IF nav = "raises"
         THEN /\ adv_pc' = "failed"
              /\ UNCHANGED <<adv_idx, adv_consent, adv_loopConsent>>
         ELSE /\ adv_consent' = adv_consent + 1
              /\ adv_loopConsent' = adv_loopConsent + 1
              /\ adv_idx' = adv_idx + 1
              /\ adv_pc' = IF adv_idx + 1 = adv_total THEN "done"
                           ELSE "download"
  /\ UNCHANGED <<adv_total, adv_dir, adv_success>>
  /\ UNCHANGED nonAdvVars

AdvInit ==
  /\ BkIdle
  /\ SpIdle
  /\ BtIdle
  /\ RegEmpty
  /\ RunIdle
  /\ FacIdle
  /\ ConIdle
  /\ CfgIdle
  /\ SanIdle
  /\ ItemIdle
  /\ FilIdle
  /\ DlIdle
  /\ adv_pc = "consent"
  /\ adv_total = 0
  /\ adv_idx = 0
  /\ adv_dir = <<>>
  /\ adv_success = 0
  /\ adv_consent = 0
  /\ adv_loopConsent = 0

AdvNext ==
  \/ AdvConsent
  \/ AdvExtract
  \/ AdvDownload
  \/ AdvReturn

SpecAdventure == AdvInit /\ [][AdvNext]_vars

(***************************************************************************)
(* The batches of BestiaryImageScrapper.main and process_monster_batch.    *)
(* The program is one coroutine: main awaits process_monster_batch for     *)
(* each batch, which handles its monsters one after the other and awaits   *)
(* download_image for the token and for the full image of each.            *)
(***************************************************************************)
MaxMonsters == 11

batch_size == 10

Min(a, b) == IF a < b THEN a ELSE b

Max(a, b) == IF a < b THEN b ELSE a

\* After the monster at index i: the next monster of the batch, or the end
\* of process_monster_batch (range(start_idx, min(start_idx + batch_size,
\* total_monsters))).
AfterMonster(i, start_idx, total_monsters) ==
  IF i + 1 < Min(start_idx + batch_size, total_monsters)
    THEN [pc |-> "monster", i |-> i + 1]
    ELSE [pc |-> "batch_done", i |-> i + 1]

\* for start_idx in range(0, total_monsters, batch_size): the next batch is
\* entered, or the loop has ended.
BtBatchStart ==
  /\ bt_pc = "main"
  /\ IF bt_start < bt_total
       THEN /\ bt_pc' = "monster"
            /\ bt_i' = bt_start
            /\ bt_batchGets' = 0
            /\ bt_peak' = 0
       ELSE /\ bt_pc' = "done"
            /\ UNCHANGED <<bt_i, bt_batchGets, bt_peak>>
  /\ UNCHANGED <<bt_total, bt_start, bt_browser, bt_inflight>>
  /\ UNCHANGED nonBtVars

\* A run of synchronous browser calls begins: the click on the monster and
\* the wait for its token (lines 163-242), or the search for the Images
\* tab and the full image (lines 248-274).
BtBrowseBegin ==
  /\ bt_pc \in {"monster", "images"}
  /\ bt_browser' = bt_browser + 1
  /\ bt_pc' = IF bt_pc = "monster" THEN "monster_busy" ELSE "images_busy"
  /\ UNCHANGED <<bt_total, bt_start, bt_i, bt_inflight, bt_batchGets, bt_peak>>
  /\ UNCHANGED nonBtVars

\* The browser calls return: with a URL to download, without one, or with
\* an exception that is caught and ends the work on this monster.
BtBrowseEnd ==
  /\ bt_pc \in {"monster_busy", "images_busy"}
  /\ bt_browser' = bt_browser - 1
  /\ \E o \in {"url", "no_url", "raises"} :
       LET next == AfterMonster(bt_i, bt_start, bt_total)
       IN  IF bt_pc = "monster_busy"
             THEN /\ bt_pc' = CASE o = "url" -> "token_get"
                                [] o = "no_url" -> "images"
                                [] OTHER -> next.pc
                  /\ bt_i' = IF o = "raises" THEN next.i ELSE bt_i
             ELSE /\ bt_pc' = IF o = "url" THEN "full_get" ELSE next.pc
                  /\ bt_i' = IF o = "url" THEN bt_i ELSE next.i
  /\ UNCHANGED <<bt_total, bt_start, bt_inflight, bt_batchGets, bt_peak>>
  /\ UNCHANGED nonBtVars

\* await download_image(...): session.get issues the GET (line 122) and
\* the coroutine is suspended until the response has been handled.
BtGet ==
  /\ bt_pc \in {"token_get", "full_get"}
  /\ bt_inflight' = bt_inflight \cup {[i |-> bt_i, kind |-> bt_pc]}
  /\ bt_batchGets' = bt_batchGets + 1
  /\ bt_peak' = Max(bt_peak, Cardinality(bt_inflight) + 1)
  /\ bt_pc' = IF bt_pc = "token_get" THEN "token_wait" ELSE "full_wait"
  /\ UNCHANGED <<bt_total, bt_start, bt_i, bt_browser>>
  /\ UNCHANGED nonBtVars

\* The response arrives (or the request fails): download_image returns and
\* process_monster_batch goes on after its await.
BtResponse ==
  /\ bt_pc \in {"token_wait", "full_wait"}
  /\ LET next == AfterMonster(bt_i, bt_start, bt_total)
         get == IF bt_pc = "token_wait" THEN "token_get" ELSE "full_get"
     IN  /\ bt_inflight' = bt_inflight \ {[i |-> bt_i, kind |-> get]}
         /\ bt_pc' = IF bt_pc = "token_wait" THEN "images" ELSE next.pc
         /\ bt_i' = IF bt_pc = "token_wait" THEN bt_i ELSE next.i
  /\ UNCHANGED <<bt_total, bt_start, bt_browser, bt_batchGets, bt_peak>>
  /\ UNCHANGED nonBtVars

\* process_monster_batch returns to main, which takes the next start_idx.
BtBatchEnd ==
  /\ bt_pc = "batch_done"
  /\ bt_start' = bt_start + batch_size
  /\ bt_pc' = "main"
  /\ UNCHANGED <<bt_total, bt_i, bt_browser, bt_inflight, bt_batchGets, bt_peak>>
  /\ UNCHANGED nonBtVars

BtInit ==
  /\ BkIdle
  /\ SpIdle
  /\ RegEmpty
  /\ RunIdle
  /\ FacIdle
  /\ ConIdle
  /\ CfgIdle
  /\ SanIdle
  /\ ItemIdle
  /\ FilIdle
  /\ DlIdle
  /\ AdvIdle
  /\ bt_pc = "main"
  /\ bt_total \in 1..MaxMonsters
  /\ bt_start = 0
  /\ bt_i = 0
  /\ bt_browser = 0
  /\ bt_inflight = {}
  /\ bt_batchGets = 0
  /\ bt_peak = 0

BtNext ==
  \/ BtBatchStart
  \/ BtBrowseBegin
  \/ BtBrowseEnd
  \/ BtGet
  \/ BtResponse
  \/ BtBatchEnd

SpecBatch == BtInit /\ [][BtNext]_vars

(***************************************************************************)
(* SpecieScrapper.process_specie on one species and the JSON file          *)
(* save_specie_data writes for it.  The record and the content of the file *)
(* are records of the fields traits, info, image and processed of          *)
(* SpecieData; name, source and url do not change.                         *)
(***************************************************************************)
\* SpecieData(name, source, url): the defaults of the dataclass.
NewSpecieData ==
  [traits |-> "empty", info |-> "empty", image |-> "none", processed |-> FALSE]

\* The JSON file of the species: absent, left by an earlier run, or the
\* dump of a record.
NoFileYet == [traits |-> "absent", info |-> "absent", image |-> "absent",
              processed |-> FALSE]

EarlierFile == [traits |-> "old", info |-> "old", image |-> "old",
                processed |-> FALSE]

\* save_specie_data(specie): json.dump(asdict(specie)) into the file; an
\* exception is caught and the file is left as it was (saves tells).
SaveSpecieData(file, specie, saves) == IF saves THEN specie ELSE file

\* driver.get(specie.url); an exception ends process_specie with None.
SpNavigate ==
  /\ sp_pc = "navigate"
  /\ \E o \in {"ok", "raises"} :
       IF o = "ok"
         THEN /\ sp_data' = NewSpecieData
              /\ sp_pc' = "traits"
              /\ UNCHANGED sp_ret
         ELSE /\ sp_pc' = "returned"
              /\ sp_ret' = "None"
              /\ UNCHANGED sp_data
  /\ UNCHANGED sp_file
  /\ UNCHANGED nonSpVars

\* full_data.traits = extract_traits_data_table_based(...), which may find
\* no trait, and the first save (lines 876-880).
SpTraits ==
  /\ sp_pc = "traits"
  /\ \E o \in {"traits", "empty", "raises"}, saves \in BOOLEAN :
       IF o # "raises"
         THEN LET d == [sp_data EXCEPT !.traits = o] IN
              /\ sp_data' = d
              /\ sp_file' = SaveSpecieData(sp_file, d, saves)
              /\ sp_pc' = "info"
              /\ UNCHANGED sp_ret
         ELSE /\ sp_pc' = "returned"
              /\ sp_ret' = "None"
              /\ UNCHANGED <<sp_data, sp_file>>
  /\ UNCHANGED nonSpVars

\* The Info tab (lines 882-890): without the tab, or when the extraction
\* raises, nothing changes; otherwise info is set and the record saved.
SpInfo ==
  /\ sp_pc = "info"
  /\ \E o \in {"no_tab", "raises", "info"}, saves \in BOOLEAN :
       IF o = "info"
         THEN LET d == [sp_data EXCEPT !.info = "info"] IN
              /\ sp_data' = d
              /\ sp_file' = SaveSpecieData(sp_file, d, saves)
         ELSE UNCHANGED <<sp_data, sp_file>>
  /\ sp_pc' = "images"
  /\ UNCHANGED sp_ret
  /\ UNCHANGED nonSpVars

\* The Images tab (lines 892-912): image is set, the image is downloaded
\* (which may mark it downloaded, or raise after image was set) and the
\* record is saved.
SpImages ==
  /\ sp_pc = "images"
  /\ \E o \in {"no_tab", "found", "downloaded", "download_raises"},
        saves \in BOOLEAN :
       CASE o = "no_tab" -> UNCHANGED <<sp_data, sp_file>>
         [] o = "download_raises" ->
              /\ sp_data' = [sp_data EXCEPT !.image = "found"]
              /\ UNCHANGED sp_file
         [] OTHER ->
              LET d == [sp_data EXCEPT !.image = o] IN
              /\ sp_data' = d
              /\ sp_file' = SaveSpecieData(sp_file, d, saves)
  /\ sp_pc' = "finish"
  /\ UNCHANGED sp_ret
  /\ UNCHANGED nonSpVars

\* full_data.processed = True; return full_data (lines 913-915).
SpFinish ==
  /\ sp_pc = "finish"
  /\ sp_data' = [sp_data EXCEPT !.processed = TRUE]
  /\ sp_ret' = "full_data"
  /\ sp_pc' = "returned"
  /\ UNCHANGED sp_file
  /\ UNCHANGED nonSpVars

SpInit ==
  /\ BkIdle
  /\ RegEmpty
  /\ RunIdle
  /\ FacIdle
  /\ ConIdle
  /\ CfgIdle
  /\ SanIdle
  /\ ItemIdle
  /\ FilIdle
  /\ DlIdle
  /\ AdvIdle
  /\ BtIdle
  /\ sp_pc = "navigate"
  /\ sp_data = "none"
  /\ sp_file \in {NoFileYet, EarlierFile}
  /\ sp_ret = "none"

SpNext ==
  \/ SpNavigate
  \/ SpTraits
  \/ SpInfo
  \/ SpImages
  \/ SpFinish

SpecSpecie == SpInit /\ [][SpNext]_vars

(***************************************************************************)
(* The book scraper (BookScrapper.py): main, process_book_one_by_one and   *)
(* save_metadata.  A book is kept as its name, its publication date and    *)
(* its download_success flag; the metadata file holds the books with the   *)
(* two counts written beside them.                                         *)
(***************************************************************************)
MaxBooks == 2

BookNames == {"PHB", "DMG"}
BookDates == {"2014-08-19", "2024-09-17"}

\* What extract_book_metadata reads from a link of the list.
BookElements == [name : BookNames, publication_date : BookDates]

\* The BookMetadata dataclass (the fields the bookkeeping reads).
BookMetadata == [name : BookNames, publication_date : BookDates,
                 download_success : BOOLEAN]

\* BooksData(): no book, both counts 0.
BooksData == [books |-> <<>>, total_books |-> 0, successful_downloads |-> 0]

\* No two entries share name and publication date.
NoDuplicates(books) ==
  \A j, k \in 1..Len(books) :
    j # k => ~(/\ books[j].name = books[k].name
               /\ books[j].publication_date = books[k].publication_date)

\* The metadata file an earlier run may have left: absent, or holding up to
\* two books of the first edition without duplicates, together with the
\* counts it recorded, which need not agree with its entries.
NoMetadataFile ==
  [present |-> FALSE, books |-> <<>>, total_books |-> 0,
   successful_downloads |-> 0]

ExistingFiles ==
  {NoMetadataFile} \cup
  {[present |-> TRUE, books |-> s, total_books |-> t,
    successful_downloads |-> u] :
     s \in {q \in UNION {[1..n -> {b \in BookMetadata :
                                      b.publication_date = "2014-08-19"}] :
                          n \in 0..2} : NoDuplicates(q)},
     t \in 0..1, u \in 0..1}

\* sum(1 for book in books_data.books if book.download_success)
RECURSIVE SuccessfulDownloads(_)
SuccessfulDownloads(books) ==
  IF books = <<>>
    THEN 0
    ELSE (IF Head(books).download_success THEN 1 ELSE 0)
           + SuccessfulDownloads(Tail(books))

\* The statistics both writers recompute before writing.
Statistics(bd) ==
  [bd EXCEPT !.total_books = Len(bd.books),
             !.successful_downloads = SuccessfulDownloads(bd.books)]

\* json.dump(asdict(books_data), f): the file holds what books_data holds.
Dump(bd) ==
  [present |-> TRUE, books |-> bd.books, total_books |-> bd.total_books,
   successful_downloads |-> bd.successful_downloads]

\* A check that never finds the book.
AlreadyProcessedNever(books, metadata) == FALSE

\* The loop over books_data.books comparing name AND publication date.
AlreadyProcessed(books, metadata) ==
  \E k \in 1..Len(books) :
    /\ books[k].name = metadata.name
    /\ books[k].publication_date = metadata.publication_date

\* Loading the existing file: taken over, counts included, when it holds
\* books; a failure to read it leaves books_data as it was.
LoadExisting(bd, disk, loads) ==
  IF loads /\ disk.present /\ disk.books # <<>>
    THEN [books |-> disk.books, total_books |-> disk.total_books,
          successful_downloads |-> disk.successful_downloads]
    ELSE bd

\* main up to the call of process_book_one_by_one and the search for the
\* book links: an exception in main goes to the finally clause; no link
\* found makes process_book_one_by_one return False and main go on to
\* save_metadata.
BkFind ==
  /\ bk_pc = "find"
  /\ \E o \in {"found", "not_found", "raises"} :
       bk_pc' = CASE o = "found" /\ bk_elems # <<>> -> "load"
                  [] o = "raises" -> "finally"
                  [] OTHER -> "save"
  /\ UNCHANGED <<bk_elems, bk_i, bk_books_data, bk_disk, bk_written, bk_skipped>>
  /\ UNCHANGED nonBkVars

\* The existing MetadataBooks.json is loaded into books_data.
BkLoad ==
  /\ bk_pc = "load"
  /\ \E loads \in BOOLEAN :
       bk_books_data' = LoadExisting(bk_books_data, bk_disk, loads)
  /\ bk_i' = 1
  /\ bk_pc' = "loop"
  /\ UNCHANGED <<bk_elems, bk_disk, bk_written, bk_skipped>>
  /\ UNCHANGED nonBkVars

\* One iteration of the loop over the links: extract the metadata, skip a
\* book already present, download it (a failed download may still find the
\* file on disk), append, recompute the counts and write the file.  An
\* exception anywhere is logged and the loop goes on.
BkBook ==
  /\ bk_pc = "loop"
  /\ bk_i <= Len(bk_elems)
  /\ \E extracted \in {"metadata", "None", "raises"},
        download \in {"True", "False", "raises"},
        exists \in BOOLEAN, writes \in BOOLEAN :
       LET e == bk_elems[bk_i]
           metadata == [name |-> e.name,
                        publication_date |-> e.publication_date,
                        download_success |-> (download = "True" \/ exists)]
           bd == Statistics([bk_books_data EXCEPT
                               !.books = Append(@, metadata)])
       IN  IF extracted # "metadata"
             THEN UNCHANGED <<bk_books_data, bk_disk, bk_written, bk_skipped>>
             ELSE IF AlreadyProcessed(bk_books_data.books, metadata)
               THEN /\ bk_skipped' = TRUE
                    /\ UNCHANGED <<bk_books_data, bk_disk, bk_written>>
               ELSE IF download = "raises"
                 THEN UNCHANGED <<bk_books_data, bk_disk, bk_written, bk_skipped>>
                 ELSE /\ bk_books_data' = bd
                      /\ bk_disk' = IF writes THEN Dump(bd) ELSE bk_disk
                      /\ bk_written' = (bk_written \/ writes)
                      /\ UNCHANGED bk_skipped
  /\ bk_i' = bk_i + 1
  /\ UNCHANGED <<bk_pc, bk_elems>>
  /\ UNCHANGED nonBkVars

\* The loop is over: process_book_one_by_one returns True.
BkLoopDone ==
  /\ bk_pc = "loop"
  /\ bk_i > Len(bk_elems)
  /\ bk_pc' = "save"
  /\ UNCHANGED <<bk_elems, bk_i, bk_books_data, bk_disk, bk_written, bk_skipped>>
  /\ UNCHANGED nonBkVars

\* save_metadata(books_data) after process_book_one_by_one.
BkSave ==
  /\ bk_pc = "save"
  /\ \E writes \in BOOLEAN :
       /\ bk_books_data' = Statistics(bk_books_data)
       /\ bk_disk' = IF writes THEN Dump(Statistics(bk_books_data))
                                 ELSE bk_disk
       /\ bk_written' = (bk_written \/ writes)
  /\ bk_pc' = "finally"
  /\ UNCHANGED <<bk_elems, bk_i, bk_skipped>>
  /\ UNCHANGED nonBkVars

\* The finally clause of main: save_metadata again when there are books.
BkFinally ==
  /\ bk_pc = "finally"
  /\ \E writes \in BOOLEAN :
       IF bk_books_data.books # <<>>
         THEN /\ bk_books_data' = Statistics(bk_books_data)
              /\ bk_disk' = IF writes THEN Dump(Statistics(bk_books_data))
                                 ELSE bk_disk
              /\ bk_written' = (bk_written \/ writes)
         ELSE UNCHANGED <<bk_books_data, bk_disk, bk_written>>
  /\ bk_pc' = "done"
  /\ UNCHANGED <<bk_elems, bk_i, bk_skipped>>
  /\ UNCHANGED nonBkVars

BkInit ==
  /\ RegEmpty
  /\ RunIdle
  /\ FacIdle
  /\ ConIdle
  /\ CfgIdle
  /\ SanIdle
  /\ ItemIdle
  /\ FilIdle
  /\ DlIdle
  /\ AdvIdle
  /\ BtIdle
  /\ SpIdle
  /\ bk_pc = "find"
  /\ bk_elems \in UNION {[1..n -> BookElements] : n \in 0..MaxBooks}
  /\ bk_i = 0
  /\ bk_books_data = BooksData
  /\ bk_disk \in ExistingFiles
  /\ bk_written = FALSE
  /\ bk_skipped = FALSE

BkNext ==
  \/ BkFind
  \/ BkLoad
  \/ BkBook
  \/ BkLoopDone
  \/ BkSave
  \/ BkFinally

SpecBooks == BkInit /\ [][BkNext]_vars

(***************************************************************************)
(* Properties of the cleanup registry.                                     *)
(***************************************************************************)
CloseOps == {"close_browser", "close_browser_global"}
CascadeOps == CloseOps \cup {"ensure_browser_cleanup"}

\* C1: close is idempotent: after close_browser (method or module function)
\* was called on a non-null session, the session is in neither registry
\* (not in managed_browsers, not in _active_browsers), so that a second call
\* finds nothing to remove and leaves the registry unchanged.
C1_ClosedSessionInNoRegistry ==
  (last.op \in CloseOps /\ last.arg # None)
    => (last.arg \notin managed_browsers /\ last.arg \notin active_browsers)

\* C2: a session is never used after it was handed to cleanup: over a whole
\* run and the process exit, no driver method (quit/close/stop included) is
\* invoked on a session on which ensure_browser_cleanup/close_browser was
\* already called.
C2_NoUseAfterCleanup == usedAfter = {}

\* C3: once main has obtained a driver, every way out of main (completion,
\* early return, an Exception in any step, KeyboardInterrupt) has called
\* ensure_browser_cleanup on that driver exactly once before main is left.
C3_CleanupExactlyOnce ==
  /\ ensureCalls <= 1
  /\ (ensureCalls = 1) => (driver # None /\ driver \in handed)
  /\ (pc \in {"returned", "interrupted", "atexit", "exited"} /\ driver # None)
       => ensureCalls = 1
  /\ (pc \in {"returned", "interrupted"} /\ driver # None)
       => (last.op = "ensure_browser_cleanup" /\ last.arg = driver)

\* The run was interrupted after the driver was obtained, and main is left.
C3_Witness ==
  /\ pc = "interrupted"
  /\ driver # None
  /\ ensureCalls = 1
  /\ last.op = "ensure_browser_cleanup"

\* C4: the shutdown methods are tried strictly in the order quit, close,
\* stop: close only after quit failed, stop only after quit and close both
\* failed, nothing after the first method that succeeds, and the cascade
\* reports success exactly when one of the methods it invoked succeeded.
C4_ShutdownOrder ==
  (last.op \in CascadeOps /\ last.arg # None) =>
    LET t == last.tried
        bh == last.bh
    IN  /\ Len(t) >= 1 /\ t[1] = "quit"
        /\ t \in {<<"quit">>, <<"quit", "close">>, <<"quit", "stop">>,
                  <<"quit", "close", "stop">>}
        /\ (\E i \in 1..Len(t) : t[i] = "close") => bh.quit # "ok"
        /\ (\E i \in 1..Len(t) : t[i] = "stop")
             => (bh.quit # "ok" /\ bh.close # "ok")
        /\ \A i \in 1..(Len(t) - 1) : bh[t[i]] # "ok"
        /\ last.closed = (\E i \in 1..Len(t) : bh[t[i]] = "ok")
        /\ (last.op \in CloseOps) => (last.result = last.closed)

\* quit and close both raised and stop closed the browser.
C4_Witness ==
  /\ last.op = "close_browser"
  /\ last.tried = <<"quit", "close", "stop">>
  /\ last.bh.quit = "raise" /\ last.bh.close = "raise" /\ last.bh.stop = "ok"
  /\ last.result

\* C5: close_all_browsers attempts to close every registered session,
\* returns true exactly when each was closed by quit/close/stop (true for an
\* empty registry), force-kills exactly when some session failed all three
\* methods, and leaves managed_browsers empty.
C5_CloseAll ==
  (last.op = "close_all_browsers") =>
    /\ last.attempted = last.pre
    /\ last.failed \subseteq last.attempted
    /\ last.result = (last.failed = {})
    /\ (last.pre = {}) => last.result
    /\ last.kills = (IF last.failed # {} THEN 1 ELSE 0)
    /\ managed_browsers = {}

\* Two sessions were registered, one closed and one failed all methods.
C5_Witness ==
  /\ last.op = "close_all_browsers"
  /\ Cardinality(last.pre) >= 2
  /\ last.failed # {}
  /\ last.failed # last.pre
  /\ last.kills = 1
  /\ ~last.result

\* C6: the exit hook _cleanup_all_browsers attempts a close on every
\* session still in the global registry, goes on after a session that
\* could not be closed, and leaves the global registry empty.
C6_ExitHookClosesAll ==
  (last.op = "_cleanup_all_browsers") =>
    /\ last.attempted = last.pre
    /\ active_browsers = {}

\* Two sessions were still registered and one of them could not be closed.
C6_Witness ==
  /\ last.op = "_cleanup_all_browsers"
  /\ Cardinality(last.pre) >= 2
  /\ last.failed # {}
  /\ last.failed # last.pre
  /\ last.attempted = last.pre
  /\ active_browsers = {}

(***************************************************************************)
(* Properties of the browser factory.                                      *)
(***************************************************************************)
Rank(backend) == CASE backend = "A" -> 1 [] backend = "B" -> 2 [] OTHER -> 3

\* Whether the construction of a backend works on the host, given the
\* inputs of the call.
BackendWorks(backend, in) ==
  CASE backend = "A" -> in.a = "ok"
    [] backend = "B" -> in.b = "ok"
    [] OTHER -> in.exe = "path" /\ in.c = "ok"

BackendAvailable(backend, av) ==
  CASE backend = "A" -> av.undetected
    [] backend = "B" -> av.selenium /\ av.manager
    [] OTHER -> av.selenium

\* C7: create_driver tries the backends in the order A (undetected driver),
\* B (selenium with managed binary), C (selenium with system binary), each
\* at most once; it returns the session of the first backend that works and
\* tries none after it; when none works it raises and returns no session.
C7_FactoryPriority ==
  (fac.op = "create_driver") =>
    LET att == fac.attempts
        n == Len(att)
    IN  /\ \A i, j \in 1..n : (i < j) => Rank(att[i]) < Rank(att[j])
        /\ \A i \in 1..n : BackendAvailable(att[i], avail)
        /\ (fac.outcome = "driver") =>
              /\ n >= 1
              /\ fac.backend = att[n]
              /\ BackendWorks(att[n], fac.in)
              /\ \A i \in 1..(n - 1) : ~BackendWorks(att[i], fac.in)
              /\ fac.session # None
              /\ setup_driver = fac.session
        /\ (fac.outcome # "driver") =>
              /\ fac.outcome \in {"RuntimeError", "ImportError"}
              /\ \A b \in {"A", "B", "C"} :
                   BackendAvailable(b, avail)
                     => (~BackendWorks(b, fac.in) /\ \E i \in 1..n : att[i] = b)
              /\ fac.session = None
              /\ setup_driver = None

\* Backends A and B failed and backend C gave the session.
C7_Witness ==
  /\ fac.op = "create_driver"
  /\ fac.attempts = <<"A", "B", "C">>
  /\ fac.outcome = "driver"
  /\ fac.backend = "C"
  /\ setup_driver # None

(***************************************************************************)
(* Properties of the cookie-consent handler.                               *)
(***************************************************************************)
StageOrder ==
  <<"set_cookies", "find_and_click", "click_accept_buttons",
    "hide_elements", "aggressive_cleanup">>

ClickStages == {"find_and_click", "click_accept_buttons"}

\* C8: handle_consent returns true when no consent element is detected, and
\* then it attempts no click and executes no stage (no cookie injection, no
\* JavaScript click, no hide or cleanup script).
C8_NoElementsNoAction ==
  (con.op = "handle_consent" /\ con.cookie_elements = <<>>) =>
    /\ con.result = TRUE
    /\ con.stages = <<>>
    /\ con.clicks = <<>>

\* Nothing was detected although an accept button would have been clickable.
C8_Witness ==
  /\ con.op = "handle_consent"
  /\ con.cookie_elements = <<>>
  /\ con.in.present = {}
  /\ con.in.buttons[1] = "click"
  /\ con.result = TRUE

\* C9 as stated: with consent elements detected, once a stage has completed
\* without raising no later stage is executed in the call, and the call
\* returns true.
C9_StopsAfterFirstCompletedStage ==
  (con.op = "handle_consent" /\ con.cookie_elements # <<>>) =>
    /\ con.result = TRUE
    /\ \A i \in 1..(Len(con.stages) - 1) : ~con.stages[i].completed

\* C9 amended: with consent elements detected the call returns true in
\* every case; the stages run in the fixed order, cookie injection first
\* and always followed by the JavaScript click; no stage runs after a click
\* stage (JavaScript click by text, direct click) that clicked a button;
\* and unless a click stage clicked, all five stages are executed.
C9_StopsAfterFirstClick ==
  (con.op = "handle_consent" /\ con.cookie_elements # <<>>) =>
    LET st == con.stages
        n == Len(st)
        Clicked(i) == st[i].name \in ClickStages /\ st[i].value
    IN  /\ con.result = TRUE
        /\ n >= 2 /\ n <= Len(StageOrder)
        /\ \A i \in 1..n : st[i].name = StageOrder[i]
        /\ \A i \in 1..(n - 1) : ~Clicked(i)
        /\ (n < Len(StageOrder)) => Clicked(n)
        /\ (n = Len(StageOrder)) => ~(\E i \in 1..n : Clicked(i))

\* The JavaScript click found no button and the direct click clicked one:
\* the call ended after the third stage.
C9_Witness ==
  /\ con.op = "handle_consent"
  /\ con.cookie_elements # <<>>
  /\ Len(con.stages) = 3
  /\ con.stages[1].completed
  /\ con.stages[2].completed /\ ~con.stages[2].value
  /\ con.stages[3].value
  /\ con.result = TRUE

(***************************************************************************)
(* Properties of the configuration store.                                  *)
(***************************************************************************)
\* Every key of keys is present along the path from dict obj, each but the
\* last holding a dict.
RECURSIVE PathPresent(_, _, _)
PathPresent(h, obj, keys) ==
  /\ h[obj][Head(keys)].k # "absent"
  /\ Len(keys) > 1 =>
       /\ h[obj][Head(keys)].k = "dict"
       /\ PathPresent(h, h[obj][Head(keys)].id, Tail(keys))

\* C10: get(key_path, default) never raises and leaves every dict object as
\* it was, and it returns default whenever a key on the dotted path is
\* absent or a value before the last key is not a dict.
C10_GetDefaultOnBrokenPath ==
  cfg.op = "get" =>
    /\ cfg.raised = "none"
    /\ heap = cfg.pre
    /\ ~PathPresent(cfg.pre, config, Split(cfg.key_path, ".")) =>
         cfg.value = cfg.arg

\* A get through a value that is no dict (None, a string, a list, a bool)
\* gave the caller's default.
C10_Witness ==
  /\ cfg.op = "get"
  /\ Len(cfg.key_path) >= 3
  /\ cfg.key_path[1] \in Names
  /\ cfg.key_path[2] = "."
  /\ cfg.pre[config][cfg.key_path[1]].k \in {"none", "str", "list", "bool"}
  /\ cfg.arg = StrVal("fallback")
  /\ cfg.value = cfg.arg

\* The key path "a.b.c" of the keys <<a, b, c>>.
RECURSIVE JoinKeys(_)
JoinKeys(keys) ==
  IF Len(keys) = 1 THEN <<keys[1]>>
  ELSE <<keys[1], ".">> \o JoinKeys(Tail(keys))

\* The keys named by an environment variable SCRAPER_A__B__C.
EnvKeys(var) == Split(LowerAll(Tail(var.name)), "__")

\* The file provides a value at the keys (one or two levels deep).
FileProvides(content, keys) ==
  \/ Len(keys) = 1 /\ content[keys[1]].k # "absent"
  \/ /\ Len(keys) = 2
     /\ content[keys[1]].k = "dict"
     /\ content[keys[1]].sub[keys[2]].k # "absent"

\* The value an environment variable's text stands for, up to the identity
\* of a dict.
IsEnvValue(value, text) ==
  LET j == JsonLoads(text) IN
    IF ~j.ok THEN value = StrVal(text)
    ELSE IF j.k = "dict" THEN value.k = "dict"
    ELSE value = [k |-> j.k, id |-> 0, s |-> text]

\* C11: environment wins over file: when a variable SCRAPER_A__B__C is set
\* and a file providing a.b.c has been loaded, get("a.b.c") returns the
\* value of the variable.
C11_EnvWinsOverFile ==
  (cfg.op = "load_from_file" /\ cfg.ok) =>
    \A i \in 1..Len(environ) :
      LET var == environ[i] IN
        (/\ var.name # <<>>
         /\ Head(var.name) = "SCRAPER_"
         /\ \A j \in (i + 1)..Len(environ) : environ[j].name # var.name
         /\ FileProvides(cfg.file.content, EnvKeys(var)))
          => IsEnvValue(Get(heap, config, JoinKeys(EnvKeys(var)), NoneVal).value,
                        var.value)

(***************************************************************************)
(* Properties of the filename sanitizers.                                  *)
(***************************************************************************)
\* C12: for every input string the output of each sanitize_filename
\* contains none of the characters \ / * ? : " < > |.
C12_NoInvalidCharInOutput ==
  (san.op = "sanitize_filename") =>
    \A i \in 1..Len(san.out) : san.out[i] \notin InvalidChars

\* A name made of invalid characters only, besides one letter, was sanitized.
C12_Witness ==
  /\ san.op = "sanitize_filename"
  /\ Len(san.name) = MaxNameLen
  /\ Cardinality({i \in 1..Len(san.name) : san.name[i] \in InvalidChars}) >= 2
  /\ \E i \in 1..Len(san.name) : san.name[i] = "a"
  /\ san.out # <<>>

(***************************************************************************)
(* Properties of the per-item loops and of the saved records.              *)
(***************************************************************************)
\* C13: the path of a record's file is a function of its name and source
\* only: saves of records with the same name and source, in the same run or
\* in a rerun, open the same path, and the files left by the saves are at
\* most one per name and source.
C13_PathFromNameAndSource ==
  /\ \A a, b \in written :
       (a.name = b.name /\ a.source = b.source) => a.path = b.path
  /\ (it_scraper # "bestiary") =>
       /\ {f.path : f \in fs} = {w.path : w \in written}
       /\ \A f \in fs : \E w \in written :
            f.path = RecordPath(it_scraper, w.name, w.source)

\* A rerun saved a record again and replaced the file of the first run.
C13_Witness ==
  /\ it_run = "rerun"
  /\ it.op = "item" /\ it.writes = 1
  /\ \E a, b \in written :
       /\ a.run = "first" /\ b.run = "rerun"
       /\ a.name = b.name /\ a.source = b.source
       /\ [path |-> b.path, by |-> "rerun"] \in fs
       /\ \A f \in fs : f.path = b.path

\* C14: a record is written to disk at most once per item per run and is
\* never changed after it was serialized.
C14_WrittenOnceNeverMutated ==
  (it.op = "item") => (it.writes <= 1 /\ ~it.mutated)

\* C17: the element handle used for item i comes from a list query made
\* after the last click or navigation before it: no click lies between the
\* query of the list and the indexing of it.
C17_ListRefetchedBeforeIndexing ==
  (it.op = "item" /\ it.handle) => it.listAt = it.domAtUse

\* C18: a failure on one item never ends the run: every index 0..total-1 is
\* attempted exactly once, in increasing order, whatever subset of items
\* fails, so the loop never aborts, the attempts made so far are the indices
\* below the current one in order, and a finished loop has attempted all.
C18_EveryIndexAttemptedOnce ==
  /\ it_pc # "aborted"
  /\ Len(attempts) = it_idx
  /\ \A k \in 1..Len(attempts) : attempts[k].idx = k - 1
  /\ (it_pc = "done") => Len(attempts) = it_total

\* C19: the wait for the list is a soft fail in every scraper: when it times
\* out the scraper logs and goes on to its next step, so no step taken from
\* the wait leaves main by a return.
C19_WaitTimeoutProceeds ==
  [][(pc = "wait") => (ending' # "early_return")]_vars

(***************************************************************************)
(* Properties of disable_filters.                                          *)
(***************************************************************************)

\* C15: on a page where a click moves the pill to the ignore state,
\* disable_filters clicks exactly the pills that are not ignored: no pill
\* is clicked twice, no pill that was in the ignore state is clicked, when
\* the function has ended every pill that was not ignored has been clicked
\* once, and the function does end.
C15_ClicksExactlyNonIgnored ==
  /\ [](fl_env = "to_ignore" =>
          /\ \A i \in 1..Len(fl_first) :
               /\ fl_clicks[i] <= 1
               /\ fl_first[i].state = "ignore" => fl_clicks[i] = 0
          /\ fl_pc = "done" =>
               \A i \in 1..Len(fl_first) :
                 fl_first[i].state # "ignore" => fl_clicks[i] = 1)
  /\ (fl_env = "to_ignore" => <>(fl_pc = "done"))

\* C16: the step always terminates, also when a click raises or leaves the
\* pill in a state that is not ignore.
C16_AlwaysTerminates == <>(fl_pc = "done")

(***************************************************************************)
(* Properties of the image downloads.                                      *)
(***************************************************************************)

\* C20: a download whose response status is not 200, or whose request
\* raises, returns False (it does not raise) and leaves every file as it
\* was: nothing is created or changed at the target path.
C20_FailedDownloadLeavesNoFile ==
  (/\ dl.op = "download"
   /\ dl.request = "raises" \/ dl.status # HTTP_OK)
    => (dl.result = "False" /\ dl_fs = dl.pre)

C20_Witness ==
  /\ dl.op = "download"
  /\ dl.request = "ok"
  /\ dl.status = 404
  /\ dl.result = "False"
  /\ dl.pre[dl.save_path] = "absent"
  /\ dl_fs[dl.save_path] = "absent"

C22_ConsentHandledOnce ==
  (adv_pc \notin {"idle", "consent"}) =>
    (adv_consent = 1 /\ adv_loopConsent = 0)

\* C28: each adventure is paired with the file of its own download: a file
\* that carries the name of adventure i was produced by the download of
\* adventure i, and after k successful downloads at least k distinct files
\* exist.
C28_AdventurePairedWithOwnFile ==
  /\ \A k \in 1..Len(adv_dir) :
       adv_dir[k].name > 0 => adv_dir[k].content = adv_dir[k].name
  /\ Cardinality({adv_dir[k].name : k \in 1..Len(adv_dir)}) >= adv_success

(***************************************************************************)
(* Properties of the bestiary batches.                                     *)
(***************************************************************************)

\* C23: the downloads of a batch are issued concurrently (a batch that
\* makes two or more GETs has had two in flight at once), never more than
\* batch_size are in flight, and no browser-driving call runs while another
\* one does.
C23_ConcurrentBoundedDownloads ==
  /\ Cardinality(bt_inflight) <= batch_size
  /\ bt_browser <= 1
  /\ (bt_pc = "batch_done" /\ bt_batchGets >= 2) => bt_peak >= 2

\* C24: in the rules-glossary run every index iterated is accounted for
\* exactly once, as a successful save or as one entry of failed_items:
\* success_count + len(failed_items) is the number of indices iterated, no
\* index is twice in failed_items, and no index is iterated a second time.
C24_EveryIndexAccountedOnce ==
  (it_scraper = "rules" /\ it_pc \in {"loop", "done"}) =>
    /\ rg_acc.success + Len(rg_acc.failed) = Len(attempts)
    /\ \A a, b \in 1..Len(rg_acc.failed) :
         a < b => rg_acc.failed[a] < rg_acc.failed[b]
    /\ \A k \in 1..Len(rg_acc.failed) :
         \E a \in 1..Len(attempts) :
           attempts[a].idx = rg_acc.failed[k] /\ attempts[a].writes = 0
    /\ \A a, b \in 1..Len(attempts) :
         a # b => attempts[a].idx # attempts[b].idx

C24_Witness ==
  /\ it_scraper = "rules" /\ it_pc = "done" /\ it_total = 2
  /\ rg_acc.success = 1
  /\ rg_acc.failed = <<0>>
  /\ attempts[2].writes = 1

\* C25: registry consistency: in every reachable state each session held in
\* the instance's managed_browsers is also in the global _active_browsers.
C25_ManagedSubsetOfActive == managed_browsers \subseteq active_browsers

\* C26: ConfigManager is initialized once per process: a constructor call
\* made after the import, with or without a config_file, returns at once on
\* the one instance and leaves its configuration (every dict object) as it
\* was.
C26_ConstructedOnce ==
  (cfg.op = "construct") =>
    /\ heap = cfg.pre
    /\ config = Len(ImportHeap) + 1
    /\ initialized
    /\ cfg.raised = "none"

C26_Witness ==
  /\ cfg.op = "construct"
  /\ cfg.file.status = "ok"
  /\ heap = cfg.pre
  /\ initialized

\* C27: the module-level DEFAULT_CONFIG is never modified: after any
\* sequence of construction, load_from_file, environment overlay and set,
\* DEFAULT_CONFIG and its nested dict hold what they held at import.
C27_DefaultConfigUnchanged ==
  /\ heap[DEFAULT_CONFIG] = ImportHeap[DEFAULT_CONFIG]
  /\ heap[DEFAULT_CONFIG_scraper] = ImportHeap[DEFAULT_CONFIG_scraper]

(***************************************************************************)
(* Properties of process_specie.                                           *)
(***************************************************************************)

\* C29: for a species that process_specie returns as processed, the JSON
\* file equals the record returned: the persisted processed flag is true
\* and the persisted info and image are those of the record.
C29_FileEqualsReturnedRecord ==
  (sp_pc = "returned" /\ sp_ret = "full_data") =>
    /\ sp_file.processed
    /\ sp_file = sp_data

\* C30: in the book scraper, starting from a metadata file without
\* duplicates, books_data.books never holds two entries with the same name
\* and publication date, and the metadata file, once this run has written
\* it, records total_books equal to the number of its entries and
\* successful_downloads equal to the number of its entries whose
\* download_success is true.
C30_NoDuplicatesAndCountsAgree ==
  /\ NoDuplicates(bk_books_data.books)
  /\ bk_written =>
       /\ bk_disk.present
       /\ NoDuplicates(bk_disk.books)
       /\ bk_disk.total_books = Len(bk_disk.books)
       /\ bk_disk.successful_downloads =
            Cardinality({k \in 1..Len(bk_disk.books) :
                           bk_disk.books[k].download_success})

\* A run that loaded books, skipped one already present, appended another
\* and wrote the file with a failed download among its entries.
C30_Witness ==
  /\ bk_written
  /\ bk_skipped
  /\ Len(bk_disk.books) >= 2
  /\ \E k \in 1..Len(bk_disk.books) : ~bk_disk.books[k].download_success
  /\ \E k \in 1..Len(bk_disk.books) : bk_disk.books[k].download_success

====
